---- MODULE Spec2Model ----
(***************************************************************************)
(* Emergency dispatch core of Sevatra (master-backend/app/ambi):           *)
(*   - the ambulance pool and AmbulanceAssignmentService                   *)
(*     (find_and_assign / release),                                        *)
(*   - the SOS lifecycle of SosService (activate / send_verification /     *)
(*     verify / cancel),                                                   *)
(*   - the OTP store used by TwilioService,                                *)
(*   - the operator's status toggle, edit and deletion of an ambulance,    *)
(*   - the live tracking sessions of routers/tracking.py (push_location    *)
(*     and the viewers' WebSocket handler).                                *)
(*                                                                         *)
(* The document store and the OTP store are shared by every request the    *)
(* backend serves, so a request is modelled as a process whose steps are   *)
(* its calls to a store: each call is one atomic step, and the steps of    *)
(* different requests interleave freely.  The tracking sessions live in    *)
(* the memory of one asyncio process: a coroutine runs without             *)
(* interruption from one await to the next, so each stretch between two    *)
(* awaits is one atomic step.                                              *)
(***************************************************************************)
EXTENDS Integers, Sequences, FiniteSets, TLC

\* ---------------------------------------------------------------- bounds
NumAmb == 2          \* ambulances registered in the pool
MaxSos == 2          \* SOS records created in one behaviour
NumProcs == 2        \* requests in flight at the same time
MaxRequests == 3     \* requests served in one behaviour, the operator's included

SimStepsFollowed == 2  \* steps a simulation run is followed for
NumSimViewers == 1     \* connections opened while a simulation is followed
NumSims == 2           \* simulate_tracking calls in one behaviour
NumTrips == 2        \* trip ids with a tracking session
NumViewers == 2      \* WebSocket connections opened in one behaviour
MaxPushes == 1       \* push_location calls in one behaviour

Amb == 1..NumAmb
SosIds == 1..MaxSos
Procs == 1..NumProcs
Trips == 1..NumTrips
Viewers == 1..NumViewers
PushIds == 1..MaxPushes
\* simulate_tracking calls, numbered in the order they are made
SimIds == 1..NumSims
SimViewers == 1..NumSimViewers

\* ------------------------------------------------------------- constants
None == -1                       \* Python None for a nullable number
UNKNOWN_BASE_KM == 999999        \* sentinel distance of an ambulance without base
updates == 60                    \* _run_simulation: the last step index

AmbStatuses == {"available", "on_trip", "maintenance", "off_duty"}
\* the statuses the operator's toggle is tried with
ToggleStatuses == {"available", "off_duty"}
\* The OTP store only compares phones and codes for equality: one phone,
\* and a code with one other code to mismatch it, exercise every branch.
Phones == {1}
Codes == {1, 2}
\* the reasons cancel is tried with
Reasons == {1}
SosStatuses == {"initiated", "countdown", "otp_sent", "verified",
                "dispatched", "cancelled", "completed"}

\* locations are (latitude, longitude), each coordinate nullable
\* caller locations tried against every pool (specification SpecPick)
CallerLocs == {<<None, None>>, <<0, None>>, <<0, 0>>, <<0, 1>>, <<0, 2>>}
\* base locations the pools of SpecPick are built from
BaseLocs == {<<None, None>>, <<1, None>>, <<0, 0>>, <<1, 1>>}
\* the base an operator's edit moves an ambulance to
EditBases == {<<0, 0>>}
\* caller locations of the SOS life cycle (specification Spec)
SosLocs == {<<0, None>>, <<0, 0>>}
\* the pool of Spec: the first registered ambulance has no base, the
\* next ones are based at (1,1) and (0,0)
BaseOf(a) == CASE a % 3 = 1 -> <<None, None>>
               [] a % 3 = 2 -> <<1, 1>>
               [] a % 3 = 0 -> <<0, 0>>

\* ------------------------------------------------------- geo (pure part)
Abs(x) == IF x < 0 THEN -x ELSE x

\* _haversine_km on whole-degree points with latitudes in {0,1} and a
\* longitude difference of at most 2 degrees, in metres: the values
\* _EARTH_R_KM * 2 * atan2(sqrt(a), sqrt(1 - a)) of the source, tabulated
\* by (lat1, lat2, |lon2 - lon1|).  sin^2 is even, so the sign of the
\* longitude difference does not matter.
HaversineTable ==
    [k \in {0,1} \X {0,1} \X {0,1,2} |->
        CASE k = <<0,0,0>> -> 0
          [] k = <<0,0,1>> -> 111195
          [] k = <<0,0,2>> -> 222390
          [] k = <<0,1,0>> -> 111195
          [] k = <<0,1,1>> -> 157249
          [] k = <<0,1,2>> -> 248629
          [] k = <<1,0,0>> -> 111195
          [] k = <<1,0,1>> -> 157249
          [] k = <<1,0,2>> -> 248629
          [] k = <<1,1,0>> -> 0
          [] k = <<1,1,1>> -> 111178
          [] k = <<1,1,2>> -> 222356]

\* _haversine_km(lat1, lon1, lat2, lon2), in metres
HaversineM(lat1, lon1, lat2, lon2) ==
    HaversineTable[<<lat1, lat2, Abs(lon2 - lon1)>>]

\* round(distance_km, 2), in units of 0.01 km
Round2(m) == (m + 5) \div 10

\* ------------------------------------------------------------------ state
VARIABLES
    amb,       \* collection "ambulances": id -> document; asg and bk are
               \* sos_id and booking_id of current_assignment
    sos,       \* collection "sos_events": sequence of documents, id = index
    bookings,  \* collection "bookings": the SOS history entries
    otp,       \* OTP store: <<sos id, phone>> -> pending code or None
    pr,        \* the requests in flight: position and local variables
    held,      \* history: ambulance reserved and release not called since
    tries,     \* history: wrong codes rejected since the pending code was stored
    uses,      \* history: verifies that matched the pending code since it was stored
    relHist,   \* history: the last direct release calls (see NoteRelease)
    reqLeft,   \* requests still allowed in this behaviour
    sessions,  \* _sessions: trip id -> TrackingSession
    viewers,   \* the WebSocket connections: state and messages received
    pushes,    \* the push_location calls: position and local variables
    lastGet,   \* the response of get_location, in the state its call leads to
    sims,      \* the simulate_tracking calls and their background tasks
    appEnv     \* settings.app_env of the process

trackVars == <<sessions, viewers, pushes, lastGet, sims, appEnv>>
vars == <<amb, sos, bookings, otp, pr, held, tries, uses, relHist, reqLeft, trackVars>>

\* the null value of an assigned_ambulance snapshot
NoInfo == [ambulance_id |-> None, base |-> <<None, None>>, distance_km |-> None]
NoChoice == [id |-> None, base |-> <<None, None>>, dist |-> None]
NoBooking == [exists |-> FALSE, status |-> "", amb |-> NoInfo]
NoRet == [err |-> "", status |-> "", amb |-> NoInfo]

\* no direct release call has completed yet
NoRelease == [a |-> None, n |-> 0, pool |-> <<>>]

\* a request slot that serves no request
Idle == [pc |-> "idle", op |-> "", sid |-> None, phone |-> None,
         code |-> None, reason |-> None, loc |-> <<None, None>>,
         chosen |-> NoChoice, info |-> NoInfo, target |-> None,
         ret |-> NoRet, raced |-> FALSE, heldAtLoad |-> FALSE,
         heldAtRelease |-> FALSE, rel |-> "none"]

\* ------------------------------------------- find_and_assign: selection
\* the documents the query status == "available" returns, in pool
\* iteration order (ascending document id)
RECURSIVE AvailableUpTo(_, _)
AvailableUpTo(pool, n) ==
    IF n = 0 THEN <<>>
    ELSE IF pool[n].exists /\ pool[n].status = "available"
         THEN Append(AvailableUpTo(pool, n - 1), n)
         ELSE AvailableUpTo(pool, n - 1)

\* every registered ambulance taken as a candidate, whatever its status
Candidates_AnyStatus(pool) ==
    SelectSeq([i \in 1..NumAmb |-> i], LAMBDA i : pool[i].exists)

Candidates(pool) == AvailableUpTo(pool, NumAmb)

\* otp_key("sos_<id>", phone): the key text "otp:sos_<id>:<phone>".  An SOS
\* id is a document id generated by the store and holds no colon, so the
\* text determines the id and the phone; the key is kept as that pair.
OtpKey(s, ph) == <<s, ph>>

LocGiven(loc) == loc[1] # None /\ loc[2] # None

\* a missing base counted as distance 0 instead of the sentinel
DistanceM_ZeroForUnknown(loc, base) ==
    IF base[1] # None /\ base[2] # None
    THEN HaversineM(loc[1], loc[2], base[1], base[2])
    ELSE 0

\* the _distance_km a candidate gets when the caller location is given,
\* in metres
DistanceM(loc, base) ==
    IF base[1] # None /\ base[2] # None
    THEN HaversineM(loc[1], loc[2], base[1], base[2])
    ELSE UNKNOWN_BASE_KM * 1000

\* list.sort made unstable: an element goes in front of its equals
RECURSIVE InsertByDist_Unstable(_, _)
InsertByDist_Unstable(x, sorted) ==
    IF sorted = <<>> THEN <<x>>
    ELSE IF Head(sorted).dist < x.dist
         THEN <<Head(sorted)>> \o InsertByDist_Unstable(x, Tail(sorted))
         ELSE <<x>> \o sorted

\* list.sort(key = _distance_km): stable, ascending.  Insert x behind
\* every element whose key is not greater.
RECURSIVE InsertByDist(_, _)
InsertByDist(x, sorted) ==
    IF sorted = <<>> THEN <<x>>
    ELSE IF Head(sorted).dist <= x.dist
         THEN <<Head(sorted)>> \o InsertByDist(x, Tail(sorted))
         ELSE <<x>> \o sorted

RECURSIVE SortByDist(_)
SortByDist(cs) ==
    IF cs = <<>> THEN <<>>
    ELSE InsertByDist(cs[Len(cs)], SortByDist(SubSeq(cs, 1, Len(cs) - 1)))

\* candidates[0] after the optional sort: id and _distance_km of the chosen
Choose(pool, loc) ==
    LET ids == Candidates(pool)
        cs == [i \in 1..Len(ids) |->
                 [id |-> ids[i],
                  base |-> pool[ids[i]].base,
                  dist |-> IF LocGiven(loc)
                           THEN DistanceM(loc, pool[ids[i]].base)
                           ELSE None]]
    IN  IF LocGiven(loc) THEN Head(SortByDist(cs)) ELSE Head(cs)

\* the embedded summary find_and_assign returns, built from the document
\* as it was loaded
Snapshot(ch) ==
    [ambulance_id |-> ch.id,
     base |-> ch.base,
     distance_km |-> IF ch.dist # None THEN Round2(ch.dist) ELSE None]

\* ------------------------------------------------------ tracking: state
\* Python None for a nullable text
NoText == "<none>"
\* a number field that the request body does not hold
Absent == -2

\* The fields of a new TrackingSession that the model follows.  lat stands
\* for the position (latitude and longitude are written together),
\* heading for heading and speed, driver for the four driver and vehicle
\* texts; eta is in seconds (eta_minutes = 8.0).
\* tracked and commits are history: a position was written by a push or
\* a simulation, and the snapshots of the session as each complete write
\* to it left it.
DefaultSession == [exists |-> FALSE, lat |-> 0, heading |-> 0, eta |-> 480,
                   status |-> "dispatched", driver |-> "",
                   listeners |-> <<>>, tracked |-> FALSE, commits |-> {}]

\* the request bodies push_location is tried with while viewers come and
\* go: a position alone, and a position with a heading
Updates == {[lat |-> 1, heading |-> None, eta |-> None,
             status |-> NoText, driver |-> NoText],
            [lat |-> 2, heading |-> 90, eta |-> None,
             status |-> NoText, driver |-> NoText]}

\* the request body push_location is tried with while a simulation runs
SimUpdates == {b \in Updates : b.heading # None}

\* the request bodies the merge is tried with: each optional field left
\* out, null, zero or empty, and set
MergeUpdates ==
    [lat : {1}, heading : {Absent, None, 0, 45}, eta : {Absent, None, 0, 300},
     status : {NoText, "nearby"}, driver : {NoText, "", "B"}]

\* LocationUpdate: a heading (speed) left out of the body is parsed as
\* 0, an eta left out as None
LocationUpdate(body) ==
    [body EXCEPT !.heading = IF @ = Absent THEN 0 ELSE @,
                 !.eta = IF @ = Absent THEN None ELSE @]

\* TrackingSession.snapshot
SnapshotOf(t, ss) ==
    [trip |-> t, lat |-> ss.lat, heading |-> ss.heading, eta |-> ss.eta,
     status |-> ss.status, driver |-> ss.driver]
NoSnap == [trip |-> None, lat |-> None, heading |-> None, eta |-> None,
           status |-> NoText, driver |-> NoText]
NoBody == [lat |-> None, heading |-> None, eta |-> None,
           status |-> NoText, driver |-> NoText]

\* a connection that was never opened
NoViewer == [st |-> "none", trip |-> None, got |-> <<>>]

\* a push_location call that was not made yet.  atStart and sentTo are
\* history: the listeners when the broadcast began, and the listeners a
\* send was started for.
NoPush == [pc |-> "idle", trip |-> None, body |-> NoBody,
           snap |-> NoSnap, idx |-> 0,
           cur |-> None, ok |-> TRUE, dead |-> <<>>, err |-> "",
           atStart |-> {}, sentTo |-> {}]

\* no request was made to the routing service yet
NoResp == [kind |-> "", coords |-> <<>>]

\* no get_location call was answered yet
NoGet == [trip |-> None, found |-> FALSE, snap |-> NoSnap]

\* a simulate_tracking call that was not made yet: i is the index of the
\* step of _run_simulation; snap to err are the fields of a broadcast
\* pass; origin is the dispatch point, resp the last answer of the routing
\* service (history), seg1 and seg2 the two legs as _fetch_route
\* returned them, route is route_coords
NoSim == [pc |-> "idle", trip |-> None, i |-> 0, snap |-> NoSnap, idx |-> 0,
          cur |-> None, ok |-> TRUE, dead |-> <<>>, err |-> "",
          origin |-> <<None, None>>, resp |-> NoResp,
          seg1 |-> <<>>, seg2 |-> <<>>, route |-> <<>>]

InitTracking ==
    /\ sessions = [t \in Trips |-> DefaultSession]
    /\ viewers = [v \in Viewers |-> NoViewer]
    /\ pushes = [k \in PushIds |-> NoPush]
    /\ lastGet = NoGet
    /\ sims = [j \in SimIds |-> NoSim]
    /\ appEnv = "development"

dispatchVars == <<amb, sos, bookings, otp, pr, held, tries, uses, relHist, reqLeft>>
\* what no step of a viewer or of push_location writes
otherVars == <<dispatchVars, sims, appEnv>>

\* ------------------------------------------------------------------ init
Init ==
    /\ amb = [a \in Amb |-> [exists |-> TRUE, status |-> "available",
                              asg |-> None, bk |-> None,
                              base |-> BaseOf(a)]]
    /\ sos = <<>>
    /\ bookings = [s \in SosIds |-> NoBooking]
    /\ otp = [k \in SosIds \X Phones |-> None]
    /\ pr = [p \in Procs |-> Idle]
    /\ held = [a \in Amb |-> FALSE]
    /\ tries = [s \in SosIds |-> 0]
    /\ uses = [k \in SosIds \X Phones |-> 0]
    /\ relHist = NoRelease
    /\ InitTracking
    /\ reqLeft = MaxRequests

\* an SOS id is known to clients once the activate that created it returned
Known(s) ==
    /\ s \in 1..Len(sos)
    /\ \A p \in Procs : ~(pr[p].op = "activate" /\ pr[p].sid = s)

\* a request is served by the first free slot
FreeSlot(p) ==
    /\ pr[p].pc = "idle"
    /\ \A q \in Procs : q < p => pr[q].pc # "idle"

Finish(p, r) == [pr EXCEPT ![p].pc = "done", ![p].ret = r]

\* the record created as initiated whoever the caller is
Activate_AlwaysInitiated(p, loc, user) ==
    /\ FreeSlot(p)
    /\ reqLeft > 0
    /\ reqLeft' = reqLeft - 1
    /\ Len(sos) < MaxSos
    /\ sos' = Append(sos,
                [status |-> "initiated",
                 loc |-> loc, user |-> user, phone |-> None,
                 reason |-> None, amb |-> NoInfo])
    /\ pr' = [pr EXCEPT ![p] =
                [Idle EXCEPT !.op = "activate", !.sid = Len(sos) + 1,
                             !.loc = loc,
                             !.pc = IF user # None THEN "fa_load" ELSE "done",
                             !.ret = [err |-> "",
                                      status |-> IF user # None
                                                 THEN "dispatched"
                                                 ELSE "initiated",
                                      amb |-> NoInfo]]]
    /\ UNCHANGED <<amb, bookings, otp, held, tries, uses, relHist, trackVars>>

\* the assignment attempted whoever the caller is
Activate_AlwaysAssign(p, loc, user) ==
    /\ FreeSlot(p)
    /\ reqLeft > 0
    /\ reqLeft' = reqLeft - 1
    /\ Len(sos) < MaxSos
    /\ sos' = Append(sos,
                [status |-> IF user # None THEN "dispatched" ELSE "initiated",
                 loc |-> loc, user |-> user, phone |-> None,
                 reason |-> None, amb |-> NoInfo])
    /\ pr' = [pr EXCEPT ![p] =
                [Idle EXCEPT !.op = "activate", !.sid = Len(sos) + 1,
                             !.loc = loc,
                             !.pc = "fa_load",
                             !.ret = [err |-> "",
                                      status |-> IF user # None
                                                 THEN "dispatched"
                                                 ELSE "initiated",
                                      amb |-> NoInfo]]]
    /\ UNCHANGED <<amb, bookings, otp, held, tries, uses, relHist, trackVars>>

\* ------------------------------------------------------ SosService.activate
\* Adds the record; an authenticated caller goes on to the assignment.
Activate(p, loc, user) ==
    /\ FreeSlot(p)
    /\ reqLeft > 0
    /\ reqLeft' = reqLeft - 1
    /\ Len(sos) < MaxSos
    /\ sos' = Append(sos,
                [status |-> IF user # None THEN "dispatched" ELSE "initiated",
                 loc |-> loc, user |-> user, phone |-> None,
                 reason |-> None, amb |-> NoInfo])
    /\ pr' = [pr EXCEPT ![p] =
                [Idle EXCEPT !.op = "activate", !.sid = Len(sos) + 1,
                             !.loc = loc,
                             !.pc = IF user # None THEN "fa_load" ELSE "done",
                             !.ret = [err |-> "",
                                      status |-> IF user # None
                                                 THEN "dispatched"
                                                 ELSE "initiated",
                                      amb |-> NoInfo]]]
    /\ UNCHANGED <<amb, bookings, otp, held, tries, uses, relHist, trackVars>>

\* where a request continues once _assign_ambulance has returned
AfterAssign(op) == IF op = "activate" THEN "act_store" ELSE "vf_write"

\* find_and_assign, first store call: load the candidates and pick one
FaLoad(p) ==
    /\ pr[p].pc = "fa_load"
    /\ IF Candidates(amb) = <<>>
       THEN pr' = [pr EXCEPT ![p].pc = AfterAssign(pr[p].op),
                             ![p].info = NoInfo]
       ELSE LET ch == Choose(amb, pr[p].loc)
            IN  pr' = [pr EXCEPT ![p].pc = "fa_write",
                                 ![p].chosen = ch,
                                 ![p].heldAtLoad = held[ch.id]]
    /\ UNCHANGED <<amb, sos, bookings, otp, held, reqLeft, tries, uses, relHist, trackVars>>

\* find_and_assign, second store call: the unconditional update of the
\* chosen document.  update() of a deleted document raises, and
\* _assign_ambulance turns the exception into None.  SosService passes
\* its SOS id as sos_id and no booking_id.
FaWrite(p) ==
    /\ pr[p].pc = "fa_write"
    /\ LET a == pr[p].chosen.id
       IN  IF amb[a].exists
           THEN /\ amb' = [amb EXCEPT ![a].status = "on_trip",
                                      ![a].asg = pr[p].sid,
                                      ![a].bk = None]
                /\ held' = [held EXCEPT ![a] = TRUE]
                /\ pr' = [q \in Procs |->
                            IF q = p
                            THEN [pr[p] EXCEPT !.pc = AfterAssign(pr[p].op),
                                               !.info = Snapshot(pr[p].chosen)]
                            ELSE IF pr[q].pc = "fa_write" /\ pr[q].chosen.id = a
                                 THEN [pr[q] EXCEPT !.raced = TRUE]
                                 ELSE pr[q]]
           ELSE /\ pr' = [pr EXCEPT ![p].pc = AfterAssign(pr[p].op),
                                    ![p].info = NoInfo]
                /\ UNCHANGED <<amb, held>>
    /\ UNCHANGED <<sos, bookings, otp, reqLeft, tries, uses, relHist, trackVars>>

\* get_assignment_for_booking(r): the first document, in document id
\* order, whose current_assignment.booking_id equals r
GetAssignmentForBooking(pool, r) ==
    LET hits == {a \in Amb : pool[a].exists /\ pool[a].bk = r}
    IN  IF hits = {} THEN None
        ELSE CHOOSE a \in hits : \A b \in hits : a <= b

\* activate, after the assignment: store the snapshot when there is one,
\* add the history booking, return the payload
ActStore(p) ==
    /\ pr[p].pc = "act_store"
    /\ LET s == pr[p].sid
           info == pr[p].info
       IN  /\ sos' = IF info # NoInfo THEN [sos EXCEPT ![s].amb = info] ELSE sos
           /\ bookings' = [bookings EXCEPT ![s] = [exists |-> TRUE, status |-> "confirmed", amb |-> info]]
           /\ pr' = Finish(p, [err |-> "", status |-> "dispatched", amb |-> info])
    /\ UNCHANGED <<amb, otp, held, reqLeft, tries, uses, relHist, trackVars>>

\* --------------------------------------------- SosService.send_verification
SendVerification(p, s, ph) ==
    /\ FreeSlot(p)
    /\ reqLeft > 0
    /\ reqLeft' = reqLeft - 1
    /\ Known(s)
    /\ pr' = [pr EXCEPT ![p] =
                IF sos[s].status \in {"initiated", "countdown", "otp_sent"}
                THEN [Idle EXCEPT !.op = "send_verification", !.sid = s,
                                  !.phone = ph, !.pc = "sv_otp"]
                ELSE [Idle EXCEPT !.op = "send_verification", !.sid = s,
                                  !.phone = ph, !.pc = "done",
                                  !.ret = [err |-> "state",
                                           status |-> sos[s].status,
                                           amb |-> NoInfo]]]
    /\ UNCHANGED <<amb, sos, bookings, otp, held, tries, uses, relHist, trackVars>>

\* the status written before the outcome of the SMS call is looked at
SvOtp_WriteFirst(p, code, delivered) ==
    /\ pr[p].pc = "sv_otp"
    /\ otp' = [otp EXCEPT ![OtpKey(pr[p].sid, pr[p].phone)] = code]
    /\ sos' = [sos EXCEPT ![pr[p].sid].status = "otp_sent"]
    /\ pr' = IF delivered
             THEN Finish(p, [err |-> "", status |-> "otp_sent", amb |-> NoInfo])
             ELSE Finish(p, [err |-> "send", status |-> "", amb |-> NoInfo])
    /\ tries' = [tries EXCEPT ![pr[p].sid] = 0]
    /\ uses' = [uses EXCEPT ![OtpKey(pr[p].sid, pr[p].phone)] = 0]
    /\ UNCHANGED <<amb, bookings, held, reqLeft, relHist, trackVars>>

\* TwilioService.send_otp: the code is stored first, then the SMS is sent;
\* delivered is the outcome of the SMS call
SvOtp(p, code, delivered) ==
    /\ pr[p].pc = "sv_otp"
    /\ otp' = [otp EXCEPT ![OtpKey(pr[p].sid, pr[p].phone)] = code]
    /\ pr' = IF delivered
             THEN [pr EXCEPT ![p].pc = "sv_write"]
             ELSE Finish(p, [err |-> "send", status |-> "", amb |-> NoInfo])
    /\ tries' = [tries EXCEPT ![pr[p].sid] = 0]
    /\ uses' = [uses EXCEPT ![OtpKey(pr[p].sid, pr[p].phone)] = 0]
    /\ UNCHANGED <<amb, sos, bookings, held, reqLeft, relHist, trackVars>>

SvWrite(p) ==
    /\ pr[p].pc = "sv_write"
    /\ sos' = [sos EXCEPT ![pr[p].sid].status = "otp_sent"]
    /\ pr' = Finish(p, [err |-> "", status |-> "otp_sent", amb |-> NoInfo])
    /\ UNCHANGED <<amb, bookings, otp, held, reqLeft, tries, uses, relHist, trackVars>>

\* ------------------------------------------------------- SosService.verify
Verify(p, s, ph, code) ==
    /\ FreeSlot(p)
    /\ reqLeft > 0
    /\ reqLeft' = reqLeft - 1
    /\ Known(s)
    /\ pr' = [pr EXCEPT ![p] =
                IF sos[s].status \in {"otp_sent", "initiated", "countdown"}
                THEN [Idle EXCEPT !.op = "verify", !.sid = s, !.phone = ph,
                                  !.code = code, !.loc = sos[s].loc,
                                  !.pc = "vf_get"]
                ELSE [Idle EXCEPT !.op = "verify", !.sid = s, !.phone = ph,
                                  !.code = code, !.pc = "done",
                                  !.ret = [err |-> "state",
                                           status |-> sos[s].status,
                                           amb |-> NoInfo]]]
    /\ UNCHANGED <<amb, sos, bookings, otp, held, tries, uses, relHist, trackVars>>

\* history: a code that differs from the pending one counts as a wrong try
WrongTry(r) ==
    LET stored == otp[OtpKey(r.sid, r.phone)]
    IN  IF stored # None /\ stored # r.code
        THEN [tries EXCEPT ![r.sid] = @ + 1]
        ELSE tries

\* history: a code that equals the pending one counts as a use of it
RightTry(r) ==
    IF otp[OtpKey(r.sid, r.phone)] = r.code
    THEN [uses EXCEPT ![OtpKey(r.sid, r.phone)] = @ + 1]
    ELSE uses

\* the pending code dropped by a failed comparison
VfOtpGet_ConsumeOnMismatch(p) ==
    /\ pr[p].pc = "vf_get"
    /\ LET stored == otp[OtpKey(pr[p].sid, pr[p].phone)]
       IN  IF stored = None \/ stored # pr[p].code
           THEN /\ pr' = Finish(p, [err |-> "otp", status |-> "", amb |-> NoInfo])
                /\ otp' = [otp EXCEPT ![OtpKey(pr[p].sid, pr[p].phone)] = None]
           ELSE /\ pr' = [pr EXCEPT ![p].pc = "vf_del"]
                /\ UNCHANGED otp
    /\ tries' = WrongTry(pr[p])
    /\ uses' = RightTry(pr[p])
    /\ UNCHANGED <<amb, sos, bookings, held, reqLeft, relHist, trackVars>>

\* TwilioService.verify_otp: read the pending code and compare
VfOtpGet(p) ==
    /\ pr[p].pc = "vf_get"
    /\ LET stored == otp[OtpKey(pr[p].sid, pr[p].phone)]
       IN  pr' = IF stored = None \/ stored # pr[p].code
                 THEN Finish(p, [err |-> "otp", status |-> "", amb |-> NoInfo])
                 ELSE [pr EXCEPT ![p].pc = "vf_del"]
    /\ tries' = WrongTry(pr[p])
    /\ uses' = RightTry(pr[p])
    /\ UNCHANGED <<amb, sos, bookings, otp, held, reqLeft, relHist, trackVars>>

\* TwilioService.verify_otp: delete the key after the match
VfOtpDel(p) ==
    /\ pr[p].pc = "vf_del"
    /\ otp' = [otp EXCEPT ![OtpKey(pr[p].sid, pr[p].phone)] = None]
    /\ pr' = [pr EXCEPT ![p].pc = "fa_load"]
    /\ UNCHANGED <<amb, sos, bookings, held, reqLeft, tries, uses, relHist, trackVars>>

\* the record dispatched only when an ambulance was assigned
VfWrite_OnlyWhenAssigned(p) ==
    /\ pr[p].pc = "vf_write"
    /\ LET s == pr[p].sid
           info == pr[p].info
       IN  /\ sos' = IF info # NoInfo
                     THEN [sos EXCEPT ![s].status = "dispatched",
                                      ![s].phone = pr[p].phone,
                                      ![s].amb = info]
                     ELSE sos
           /\ bookings' = IF sos[s].user # None
                          THEN [bookings EXCEPT ![s] = [exists |-> TRUE, status |-> "confirmed", amb |-> info]]
                          ELSE bookings
           /\ pr' = Finish(p, [err |-> "", status |-> "dispatched", amb |-> info])
    /\ UNCHANGED <<amb, otp, held, reqLeft, tries, uses, relHist, trackVars>>

\* verify, after the assignment: the unconditional update of the record,
\* then the history booking when the record has a user
VfWrite(p) ==
    /\ pr[p].pc = "vf_write"
    /\ LET s == pr[p].sid
           info == pr[p].info
       IN  /\ sos' = [sos EXCEPT ![s].status = "dispatched",
                                 ![s].phone = pr[p].phone,
                                 ![s].amb = IF info # NoInfo THEN info ELSE @]
           /\ bookings' = IF sos[s].user # None
                          THEN [bookings EXCEPT ![s] = [exists |-> TRUE, status |-> "confirmed", amb |-> info]]
                          ELSE bookings
           /\ pr' = Finish(p, [err |-> "", status |-> "dispatched", amb |-> info])
    /\ UNCHANGED <<amb, otp, held, reqLeft, tries, uses, relHist, trackVars>>

\* the record marked without releasing the ambulance of its snapshot
Cancel_NoRelease(p, s, reason) ==
    /\ FreeSlot(p)
    /\ reqLeft > 0
    /\ reqLeft' = reqLeft - 1
    /\ Known(s)
    /\ pr' = [pr EXCEPT ![p] =
                IF sos[s].status \in {"completed", "cancelled"}
                THEN [Idle EXCEPT !.op = "cancel", !.sid = s, !.reason = reason,
                                  !.pc = "done",
                                  !.ret = [err |-> "state",
                                           status |-> sos[s].status,
                                           amb |-> NoInfo]]
                ELSE [Idle EXCEPT !.op = "cancel", !.sid = s, !.reason = reason,
                                  !.info = sos[s].amb,
                                  !.target = sos[s].amb.ambulance_id,
                                  !.pc = "cn_write"]]
    /\ UNCHANGED <<amb, sos, bookings, otp, held, tries, uses, relHist, trackVars>>

\* ------------------------------------------------------- SosService.cancel
Cancel(p, s, reason) ==
    /\ FreeSlot(p)
    /\ reqLeft > 0
    /\ reqLeft' = reqLeft - 1
    /\ Known(s)
    /\ pr' = [pr EXCEPT ![p] =
                IF sos[s].status \in {"completed", "cancelled"}
                THEN [Idle EXCEPT !.op = "cancel", !.sid = s, !.reason = reason,
                                  !.pc = "done",
                                  !.ret = [err |-> "state",
                                           status |-> sos[s].status,
                                           amb |-> NoInfo]]
                ELSE [Idle EXCEPT !.op = "cancel", !.sid = s, !.reason = reason,
                                  !.info = sos[s].amb,
                                  !.target = sos[s].amb.ambulance_id,
                                  !.pc = IF sos[s].amb.ambulance_id # None
                                         THEN "rl_get" ELSE "cn_write"]]
    /\ UNCHANGED <<amb, sos, bookings, otp, held, tries, uses, relHist, trackVars>>

\* ------------------------------------- AmbulanceAssignmentService.release
\* release(a) called on its own, outside a cancel
Release(p, a) ==
    /\ FreeSlot(p)
    /\ reqLeft > 0
    /\ reqLeft' = reqLeft - 1
    /\ pr' = [pr EXCEPT ![p] =
                [Idle EXCEPT !.op = "release", !.target = a, !.pc = "rl_get"]]
    /\ UNCHANGED <<amb, sos, bookings, otp, held, tries, uses, relHist, trackVars>>

\* where a request continues once release has returned
AfterRelease(op) ==
    IF op = "cancel" THEN "cn_write"
    ELSE IF op = "cancel_booking" THEN "bk_write"
    ELSE "done"

\* history: release(a) called on its own has returned and left the pool as
\* given.  Calls in a row on the same ambulance are counted, and the pool
\* the first of them left is kept.
NoteRelease(op, a, pool) ==
    IF op # "release" THEN relHist
    ELSE IF relHist.a = a THEN [relHist EXCEPT !.n = @ + 1]
    ELSE [a |-> a, n |-> 1, pool |-> pool]

\* release, first store call: an unknown ambulance is logged and skipped
RlGet(p) ==
    /\ pr[p].pc = "rl_get"
    /\ LET a == pr[p].target
       IN  /\ held' = [held EXCEPT ![a] = FALSE]
           /\ IF amb[a].exists
              THEN /\ pr' = [pr EXCEPT ![p].pc = "rl_write",
                                        ![p].heldAtRelease = held[a]]
                   /\ UNCHANGED relHist
              ELSE /\ pr' = [pr EXCEPT ![p].pc = AfterRelease(pr[p].op),
                                        ![p].heldAtRelease = held[a],
                                        ![p].rel = "missing"]
                   /\ relHist' = NoteRelease(pr[p].op, a, amb)
    /\ UNCHANGED <<amb, sos, bookings, otp, reqLeft, tries, uses, trackVars>>

\* release that raises for an ambulance which is available already
RlWrite_RejectAvailable(p) ==
    /\ pr[p].pc = "rl_write"
    /\ LET a == pr[p].target
       IN  IF amb[a].exists /\ amb[a].status # "available"
           THEN /\ amb' = [amb EXCEPT ![a].status = "available",
                                      ![a].asg = None, ![a].bk = None]
                /\ pr' = [pr EXCEPT ![p].pc = AfterRelease(pr[p].op),
                                     ![p].rel = "written"]
                /\ relHist' = NoteRelease(pr[p].op, a, amb')
           ELSE /\ pr' = Finish(p, [err |-> "exception", status |-> "",
                                    amb |-> NoInfo])
                /\ UNCHANGED <<amb, relHist>>
    /\ UNCHANGED <<sos, bookings, otp, held, reqLeft, tries, uses, relHist, trackVars>>

\* release that refuses an ambulance which is not on a trip
RlWrite_OnTripOnly(p) ==
    /\ pr[p].pc = "rl_write"
    /\ LET a == pr[p].target
       IN  IF amb[a].exists /\ amb[a].status = "on_trip"
           THEN /\ amb' = [amb EXCEPT ![a].status = "available",
                                      ![a].asg = None, ![a].bk = None]
                /\ pr' = [pr EXCEPT ![p].pc = AfterRelease(pr[p].op),
                                     ![p].rel = "written"]
                /\ relHist' = NoteRelease(pr[p].op, a, amb')
           ELSE /\ pr' = Finish(p, [err |-> "exception", status |-> "",
                                    amb |-> NoInfo])
                /\ UNCHANGED <<amb, relHist>>
    /\ UNCHANGED <<sos, bookings, otp, held, reqLeft, tries, uses, trackVars>>

\* release, second store call: the update; it raises when the document
\* was deleted in between.  SosService.cancel does not catch the
\* exception, cancel_booking logs it and goes on.
RlWrite(p) ==
    /\ pr[p].pc = "rl_write"
    /\ LET a == pr[p].target
       IN  IF amb[a].exists
           THEN /\ amb' = [amb EXCEPT ![a].status = "available",
                                      ![a].asg = None, ![a].bk = None]
                /\ pr' = [pr EXCEPT ![p].pc = AfterRelease(pr[p].op),
                                     ![p].rel = "written"]
                /\ relHist' = NoteRelease(pr[p].op, a, amb')
           ELSE /\ pr' = IF pr[p].op = "cancel_booking"
                         THEN [pr EXCEPT ![p].pc = "bk_write"]
                         ELSE Finish(p, [err |-> "exception", status |-> "",
                                         amb |-> NoInfo])
                /\ UNCHANGED <<amb, relHist>>
    /\ UNCHANGED <<sos, bookings, otp, held, reqLeft, tries, uses, trackVars>>

\* cancel, last store calls: mark the record and return it
CnWrite(p) ==
    /\ pr[p].pc = "cn_write"
    /\ LET s == pr[p].sid
       IN  /\ sos' = [sos EXCEPT ![s].status = "cancelled",
                                 ![s].reason = pr[p].reason]
           /\ pr' = Finish(p, [err |-> "", status |-> "cancelled",
                               amb |-> sos[s].amb])
    /\ UNCHANGED <<amb, bookings, otp, held, reqLeft, tries, uses, relHist, trackVars>>

\* ------------------------------------------ BookingService.cancel_booking
\* The history booking of SOS b is cancelled by its user: the record is
\* read and checked, and the ambulance of its snapshot is released.
CancelBooking(p, b) ==
    /\ FreeSlot(p)
    /\ reqLeft > 0
    /\ reqLeft' = reqLeft - 1
    /\ pr' = [pr EXCEPT ![p] =
                IF ~bookings[b].exists
                THEN [Idle EXCEPT !.op = "cancel_booking", !.sid = b,
                                  !.pc = "done",
                                  !.ret = [err |-> "not_found", status |-> "",
                                           amb |-> NoInfo]]
                ELSE IF bookings[b].status \in {"completed", "cancelled"}
                THEN [Idle EXCEPT !.op = "cancel_booking", !.sid = b,
                                  !.pc = "done",
                                  !.ret = [err |-> "state",
                                           status |-> bookings[b].status,
                                           amb |-> NoInfo]]
                ELSE [Idle EXCEPT !.op = "cancel_booking", !.sid = b,
                                  !.info = bookings[b].amb,
                                  !.target = bookings[b].amb.ambulance_id,
                                  !.pc = IF bookings[b].amb.ambulance_id # None
                                         THEN "rl_get" ELSE "bk_write"]]
    /\ UNCHANGED <<amb, sos, bookings, otp, held, tries, uses, relHist, trackVars>>

\* cancel_booking, last store calls: mark the booking, drop its snapshot
BkWrite(p) ==
    /\ pr[p].pc = "bk_write"
    /\ LET b == pr[p].sid
       IN  /\ bookings' = [bookings EXCEPT ![b].status = "cancelled",
                                           ![b].amb = NoInfo]
           /\ pr' = Finish(p, [err |-> "", status |-> "cancelled",
                               amb |-> NoInfo])
    /\ UNCHANGED <<amb, sos, otp, held, reqLeft, tries, uses, relHist, trackVars>>

\* the worker that serves a cancel stops between the release and the
\* update of the record: the request is gone and nothing was returned
Crash(p) ==
    /\ pr[p].op = "cancel"
    /\ pr[p].pc = "cn_write"
    /\ pr[p].target # None
    /\ pr' = [pr EXCEPT ![p] = Idle]
    /\ UNCHANGED <<amb, sos, bookings, otp, held, reqLeft, tries, uses, relHist, trackVars>>

\* the response leaves the server
Return(p) ==
    /\ pr[p].pc = "done"
    /\ pr' = [pr EXCEPT ![p] = Idle]
    /\ UNCHANGED <<amb, sos, bookings, otp, held, reqLeft, tries, uses, relHist, trackVars>>

\* ----------------------------------------------------------- environment
\* OperatorService.update_ambulance_status: writes the status only
OpSetStatus(a, st) ==
    /\ reqLeft > 0
    /\ amb[a].exists
    /\ amb[a].status # st
    /\ amb' = [amb EXCEPT ![a].status = st]
    /\ reqLeft' = reqLeft - 1
    /\ UNCHANGED <<sos, bookings, otp, pr, held, tries, uses, relHist, trackVars>>

\* an edit that reaches into the records that embed the ambulance
OpEdit_LiveReference(a, base) ==
    /\ reqLeft > 0
    /\ amb[a].exists
    /\ amb[a].base # base
    /\ amb' = [amb EXCEPT ![a].base = base]
    /\ sos' = [s \in 1..Len(sos) |->
                 IF sos[s].amb.ambulance_id = a
                 THEN [sos[s] EXCEPT !.amb.base = base]
                 ELSE sos[s]]
    /\ reqLeft' = reqLeft - 1
    /\ UNCHANGED <<bookings, otp, pr, held, tries, uses, relHist, trackVars>>

\* OperatorService.update_ambulance: the operator moves the base
OpEdit(a, base) ==
    /\ reqLeft > 0
    /\ amb[a].exists
    /\ amb[a].base # base
    /\ amb' = [amb EXCEPT ![a].base = base]
    /\ reqLeft' = reqLeft - 1
    /\ UNCHANGED <<sos, bookings, otp, pr, held, tries, uses, relHist, trackVars>>

\* OperatorService.delete_ambulance
OpDelete(a) ==
    /\ reqLeft > 0
    /\ amb[a].exists
    /\ amb' = [amb EXCEPT ![a].exists = FALSE]
    /\ reqLeft' = reqLeft - 1
    /\ UNCHANGED <<sos, bookings, otp, pr, held, tries, uses, relHist, trackVars>>

\* the OTP key reaches its time-to-live
OtpExpire(s, ph) ==
    /\ otp[OtpKey(s, ph)] # None
    /\ otp' = [otp EXCEPT ![OtpKey(s, ph)] = None]
    /\ UNCHANGED <<amb, sos, bookings, pr, held, reqLeft, tries, uses, relHist, trackVars>>

Next ==
    \/ \E p \in Procs, loc \in SosLocs, user \in {None, 1} :
          Activate(p, loc, user)
    \/ \E p \in Procs : FaLoad(p)
    \/ \E p \in Procs : FaWrite(p)
    \/ \E p \in Procs : ActStore(p)
    \/ \E p \in Procs, s \in SosIds, ph \in Phones : SendVerification(p, s, ph)
    \/ \E p \in Procs, code \in Codes, delivered \in BOOLEAN :
          SvOtp(p, code, delivered)
    \/ \E p \in Procs : SvWrite(p)
    \/ \E p \in Procs, s \in SosIds, ph \in Phones, code \in Codes :
          Verify(p, s, ph, code)
    \/ \E p \in Procs : VfOtpGet(p)
    \/ \E p \in Procs : VfOtpDel(p)
    \/ \E p \in Procs : VfWrite(p)
    \/ \E p \in Procs, s \in SosIds, reason \in Reasons : Cancel(p, s, reason)
    \/ \E p \in Procs : RlGet(p)
    \/ \E p \in Procs : RlWrite(p)
    \/ \E p \in Procs : CnWrite(p)
    \/ \E p \in Procs : Return(p)
    \/ \E a \in Amb, st \in ToggleStatuses : OpSetStatus(a, st)
    \/ \E a \in Amb, base \in EditBases : OpEdit(a, base)
    \/ \E a \in Amb : OpDelete(a)
    \/ \E s \in SosIds, ph \in Phones : OtpExpire(s, ph)

Spec == Init /\ [][Next]_vars

\* ------------------------------------------- the selection on every pool
\* One authenticated activate against an arbitrary registered pool.
InitPick ==
    /\ amb \in [Amb -> [exists : BOOLEAN, status : {"available", "off_duty"},
                        asg : {None}, bk : {None},
                        base : BaseLocs]]
    /\ sos = <<>>
    /\ bookings = [s \in SosIds |-> NoBooking]
    /\ otp = [k \in SosIds \X Phones |-> None]
    /\ pr = [p \in Procs |-> Idle]
    /\ held = [a \in Amb |-> FALSE]
    /\ tries = [s \in SosIds |-> 0]
    /\ uses = [k \in SosIds \X Phones |-> 0]
    /\ relHist = NoRelease
    /\ InitTracking
    /\ reqLeft = 1

NextPick ==
    \/ \E loc \in CallerLocs : Activate(1, loc, 1)
    \/ FaLoad(1)
    \/ FaWrite(1)
    \/ ActStore(1)
    \/ Return(1)

SpecPick == InitPick /\ [][NextPick]_vars

\* ----------------------------------------- verification with retried codes
\* Anonymous SOS records verified by phone, against every pool of which
\* ambulances are on duty, with requests enough for a send_verification,
\* two wrong codes and the right one.
InitVerify ==
    /\ amb \in {[a \in Amb |-> [exists |-> TRUE, status |-> st[a],
                                 asg |-> None, bk |-> None,
                                 base |-> BaseOf(a)]] :
                   st \in [Amb -> ToggleStatuses]}
    /\ sos = <<>>
    /\ bookings = [s \in SosIds |-> NoBooking]
    /\ otp = [k \in SosIds \X Phones |-> None]
    /\ pr = [p \in Procs |-> Idle]
    /\ held = [a \in Amb |-> FALSE]
    /\ tries = [s \in SosIds |-> 0]
    /\ uses = [k \in SosIds \X Phones |-> 0]
    /\ relHist = NoRelease
    /\ InitTracking
    /\ reqLeft = MaxRequests + 2

NextVerify ==
    \/ \E loc \in SosLocs : Activate(1, loc, None)
    \/ \E s \in SosIds, ph \in Phones : SendVerification(1, s, ph)
    \/ \E code \in Codes, delivered \in BOOLEAN : SvOtp(1, code, delivered)
    \/ SvWrite(1)
    \/ \E s \in SosIds, ph \in Phones, code \in Codes : Verify(1, s, ph, code)
    \/ VfOtpGet(1)
    \/ VfOtpDel(1)
    \/ FaLoad(1)
    \/ FaWrite(1)
    \/ VfWrite(1)
    \/ Return(1)
    \/ \E s \in SosIds, ph \in Phones : OtpExpire(s, ph)

SpecVerify == InitVerify /\ [][NextVerify]_vars

\* ------------------------------------------------- release on every pool
\* Two release calls, one after the other, against an arbitrary pool: any
\* status (the operator may set each of them), with or without a current
\* assignment, registered or deleted.
InitRelease ==
    /\ amb \in [Amb -> [exists : BOOLEAN, status : AmbStatuses,
                        asg : {None, 1}, bk : {None},
                        base : {<<0, 0>>}]]
    /\ sos = <<>>
    /\ bookings = [s \in SosIds |-> NoBooking]
    /\ otp = [k \in SosIds \X Phones |-> None]
    /\ pr = [p \in Procs |-> Idle]
    /\ held = [a \in Amb |-> FALSE]
    /\ tries = [s \in SosIds |-> 0]
    /\ uses = [k \in SosIds \X Phones |-> 0]
    /\ relHist = NoRelease
    /\ InitTracking
    /\ reqLeft = 2

NextRelease ==
    \/ \E a \in Amb : Release(1, a)
    \/ RlGet(1)
    \/ RlWrite(1)
    \/ Return(1)

SpecRelease == InitRelease /\ [][NextRelease]_vars

\* ------------------------------------------ concurrent use of a code
\* Anonymous SOS records with requests enough for an activate, a
\* send_verification and two verifies, which may overlap.
InitOtp ==
    /\ amb = [a \in Amb |-> [exists |-> TRUE, status |-> "available",
                              asg |-> None, bk |-> None,
                              base |-> BaseOf(a)]]
    /\ sos = <<>>
    /\ bookings = [s \in SosIds |-> NoBooking]
    /\ otp = [k \in SosIds \X Phones |-> None]
    /\ pr = [p \in Procs |-> Idle]
    /\ held = [a \in Amb |-> FALSE]
    /\ tries = [s \in SosIds |-> 0]
    /\ uses = [k \in SosIds \X Phones |-> 0]
    /\ relHist = NoRelease
    /\ InitTracking
    /\ reqLeft = MaxRequests + 1

NextOtp ==
    \/ \E p \in Procs, loc \in SosLocs : Activate(p, loc, None)
    \/ \E p \in Procs, s \in SosIds, ph \in Phones : SendVerification(p, s, ph)
    \/ \E p \in Procs, code \in Codes, delivered \in BOOLEAN :
          SvOtp(p, code, delivered)
    \/ \E p \in Procs : SvWrite(p)
    \/ \E p \in Procs, s \in SosIds, ph \in Phones, code \in Codes :
          Verify(p, s, ph, code)
    \/ \E p \in Procs : VfOtpGet(p)
    \/ \E p \in Procs : VfOtpDel(p)
    \/ \E p \in Procs : FaLoad(p)
    \/ \E p \in Procs : FaWrite(p)
    \/ \E p \in Procs : VfWrite(p)
    \/ \E p \in Procs : Return(p)

SpecOtp == InitOtp /\ [][NextOtp]_vars

\* ------------------------------------------------ cancel after a crash
\* One request after the other: an authenticated activate, then cancels of
\* its record, the first of which may stop between release and update.
InitRetry ==
    /\ amb \in {[a \in Amb |-> [exists |-> TRUE, status |-> st[a],
                                 asg |-> None, bk |-> None,
                                 base |-> BaseOf(a)]] :
                   st \in [Amb -> ToggleStatuses]}
    /\ sos = <<>>
    /\ bookings = [s \in SosIds |-> NoBooking]
    /\ otp = [k \in SosIds \X Phones |-> None]
    /\ pr = [p \in Procs |-> Idle]
    /\ held = [a \in Amb |-> FALSE]
    /\ tries = [s \in SosIds |-> 0]
    /\ uses = [k \in SosIds \X Phones |-> 0]
    /\ relHist = NoRelease
    /\ InitTracking
    /\ reqLeft = MaxRequests

NextRetry ==
    \/ \E loc \in SosLocs : Activate(1, loc, 1)
    \/ FaLoad(1)
    \/ FaWrite(1)
    \/ ActStore(1)
    \/ \E s \in SosIds, reason \in Reasons : Cancel(1, s, reason)
    \/ RlGet(1)
    \/ RlWrite(1)
    \/ Crash(1)
    \/ CnWrite(1)
    \/ Return(1)

SpecRetry == InitRetry /\ [][NextRetry]_vars

\* --------------------------------- cancels of a trip and of its booking
\* One logged-in client, its requests one after the other: activate,
\* cancel of the SOS, cancel of its history booking.
InitCancel ==
    /\ amb = [a \in Amb |-> [exists |-> TRUE, status |-> "available",
                              asg |-> None, bk |-> None,
                              base |-> BaseOf(a)]]
    /\ sos = <<>>
    /\ bookings = [s \in SosIds |-> NoBooking]
    /\ otp = [k \in SosIds \X Phones |-> None]
    /\ pr = [p \in Procs |-> Idle]
    /\ held = [a \in Amb |-> FALSE]
    /\ tries = [s \in SosIds |-> 0]
    /\ uses = [k \in SosIds \X Phones |-> 0]
    /\ relHist = NoRelease
    /\ InitTracking
    /\ reqLeft = MaxRequests + 1

NextCancel ==
    \/ \E loc \in SosLocs : Activate(1, loc, 1)
    \/ FaLoad(1)
    \/ FaWrite(1)
    \/ ActStore(1)
    \/ \E s \in SosIds, reason \in Reasons : Cancel(1, s, reason)
    \/ \E b \in SosIds : CancelBooking(1, b)
    \/ RlGet(1)
    \/ RlWrite(1)
    \/ CnWrite(1)
    \/ BkWrite(1)
    \/ Return(1)

SpecCancel == InitCancel /\ [][NextCancel]_vars

\* ----------------------------------- activate, verify and cancel only
\* SOS 1 was activated anonymously and a code was sent to its phone; from
\* there on clients activate, verify and cancel, and the requests overlap.
InitOrphan ==
    /\ amb = [a \in Amb |-> [exists |-> TRUE, status |-> "available",
                              asg |-> None, bk |-> None,
                              base |-> BaseOf(a)]]
    /\ sos \in {<<[status |-> "otp_sent", loc |-> loc, user |-> None,
                    phone |-> None, reason |-> None, amb |-> NoInfo]>> :
                   loc \in SosLocs}
    /\ bookings = [s \in SosIds |-> NoBooking]
    /\ otp \in {[k \in SosIds \X Phones |->
                     IF k = OtpKey(1, ph) THEN code ELSE None] :
                   ph \in Phones, code \in Codes}
    /\ pr = [p \in Procs |-> Idle]
    /\ held = [a \in Amb |-> FALSE]
    /\ tries = [s \in SosIds |-> 0]
    /\ uses = [k \in SosIds \X Phones |-> 0]
    /\ relHist = NoRelease
    /\ InitTracking
    /\ reqLeft = MaxRequests

NextOrphan ==
    \/ \E p \in Procs, loc \in SosLocs, user \in {None, 1} :
          Activate(p, loc, user)
    \/ \E p \in Procs : FaLoad(p)
    \/ \E p \in Procs : FaWrite(p)
    \/ \E p \in Procs : ActStore(p)
    \/ \E p \in Procs, s \in SosIds, ph \in Phones, code \in Codes :
          Verify(p, s, ph, code)
    \/ \E p \in Procs : VfOtpGet(p)
    \/ \E p \in Procs : VfOtpDel(p)
    \/ \E p \in Procs : VfWrite(p)
    \/ \E p \in Procs, s \in SosIds, reason \in Reasons : Cancel(p, s, reason)
    \/ \E p \in Procs : RlGet(p)
    \/ \E p \in Procs : RlWrite(p)
    \/ \E p \in Procs : CnWrite(p)
    \/ \E p \in Procs : Return(p)

SpecOrphan == InitOrphan /\ [][NextOrphan]_vars

\* ------------------------------------------------------ tracking: steps
Range(q) == {q[i] : i \in 1..Len(q)}

\* list.remove(v)
Remove(q, v) == SelectSeq(q, LAMBDA x : x # v)

\* history: a complete write has left the session as ss
Commit(t, ss) == [ss EXCEPT !.commits = @ \cup {SnapshotOf(t, ss)}]

\* _get_or_create
GetOrCreate(t) ==
    IF sessions[t].exists THEN sessions[t]
    ELSE Commit(t, [DefaultSession EXCEPT !.exists = TRUE])

\* The merge of push_location.  The position is overwritten; "x or old"
\* takes a heading (speed) that is neither None nor 0; eta_minutes is
\* taken unless None; "if x:" takes a text that is neither None nor empty.
Merge(ss, upd) ==
    [ss EXCEPT !.lat = upd.lat,
               !.heading = IF upd.heading # None /\ upd.heading # 0
                           THEN upd.heading ELSE @,
               !.eta = IF upd.eta # None THEN upd.eta ELSE @,
               !.status = IF upd.status \notin {NoText, ""}
                          THEN upd.status ELSE @,
               !.driver = IF upd.driver \notin {NoText, ""}
                          THEN upd.driver ELSE @]

\* for ws in dead: session.listeners.remove(ws); remove raises ValueError
\* for a connection that is not in the list
RECURSIVE RemoveDead(_, _)
RemoveDead(q, dead) ==
    IF dead = <<>> THEN [listeners |-> q, err |-> ""]
    ELSE IF Head(dead) \in Range(q)
         THEN RemoveDead(Remove(q, Head(dead)), Tail(dead))
         ELSE [listeners |-> q, err |-> "ValueError"]

\* Trip ids are interchangeable: they are numbered in the order their
\* sessions are created.
NextTrip(t) == IF t = 1 THEN TRUE ELSE sessions[t - 1].exists

\* tracking_ws up to its first await after accept: the connection joins
\* the listeners of the trip and the current snapshot is written to it.
\* Connections are numbered in the order they are opened.
Subscribe(v, t) ==
    /\ viewers[v].st = "none"
    /\ \A w \in Viewers : w < v => viewers[w].st # "none"
    /\ NextTrip(t)
    /\ LET ss == GetOrCreate(t)
       IN  /\ sessions' = [sessions EXCEPT
                              ![t] = [ss EXCEPT !.listeners = Append(@, v)]]
           /\ viewers' = [viewers EXCEPT
                             ![v] = [st |-> "open", trip |-> t,
                                     got |-> <<SnapshotOf(t, ss)>>]]
    /\ lastGet' = NoGet
    /\ UNCHANGED <<pushes, otherVars>>

\* the connection is lost (closed by the client, or an error); its handler
\* has not run yet
Break(v) ==
    /\ viewers[v].st = "open"
    /\ viewers' = [viewers EXCEPT ![v].st = "broken"]
    /\ lastGet' = NoGet
    /\ UNCHANGED <<sessions, pushes, otherVars>>

\* the client stops reading while the connection stays up: its buffers
\* are full, and a send to it is suspended until the client reads again
Stall(v) ==
    /\ viewers[v].st = "open"
    /\ viewers' = [viewers EXCEPT ![v].st = "stalled"]
    /\ lastGet' = NoGet
    /\ UNCHANGED <<sessions, pushes, otherVars>>

\* the handler that leaves the connection in the listeners
Finalize_KeepListener(v) ==
    /\ viewers[v].st = "broken"
    /\ viewers' = [viewers EXCEPT ![v].st = "closed", ![v].got = <<>>]
    /\ lastGet' = NoGet
    /\ UNCHANGED <<sessions, pushes, otherVars>>

\* tracking_ws, except / finally: the handler wakes up with the
\* disconnect or the error and takes the connection out of the listeners.
\* The messages of a connection are followed as long as its handler lives.
Finalize(v) ==
    /\ viewers[v].st = "broken"
    /\ viewers' = [viewers EXCEPT ![v].st = "closed", ![v].got = <<>>]
    /\ sessions' = [sessions EXCEPT
                       ![viewers[v].trip].listeners = Remove(@, v)]
    /\ lastGet' = NoGet
    /\ UNCHANGED <<pushes, otherVars>>

\* await ws.send_json(snapshot) is over for the call with record r: the
\* message was written, or the connection is down and the send raised.
\* The await has no timeout, so a send to a stalled connection is not
\* over.
SendDone(r) == r.ok \/ viewers[r.cur].st # "stalled"

\* push_location from the end of one send to its next await: the loop
\* takes the next element of the live list and starts the send to it (a
\* send to an open connection writes the message), or, past the end of
\* the list, removes the dead connections and returns.  r is the call's
\* record and ss the sessions as the call has left them so far.
Continue(k, r, ss) ==
    LET t == r.trip
        ls == ss[t].listeners
    IN  IF r.idx < Len(ls)
        THEN LET v == ls[r.idx + 1]
                 open == viewers[v].st = "open"
             IN  /\ pushes' = [pushes EXCEPT
                                 ![k] = [r EXCEPT !.pc = "sending",
                                                  !.idx = @ + 1,
                                                  !.cur = v,
                                                  !.ok = open,
                                                  !.sentTo = @ \cup {v}]]
                 /\ viewers' = IF open
                               THEN [viewers EXCEPT ![v].got = Append(@, r.snap)]
                               ELSE viewers
                 /\ sessions' = ss
        ELSE LET rm == RemoveDead(ls, r.dead)
             IN  /\ pushes' = [pushes EXCEPT
                                 ![k] = [r EXCEPT !.pc = "done",
                                                  !.cur = None,
                                                  !.err = rm.err]]
                 /\ sessions' = [ss EXCEPT ![t].listeners = rm.listeners]
                 /\ UNCHANGED viewers

\* push_location up to its first await: merge, snapshot, first send.
\* Calls are numbered in the order they are made.
PushLocation(k, t, body) ==
    /\ pushes[k].pc = "idle"
    /\ \A j \in PushIds : j < k => pushes[j].pc # "idle"
    /\ NextTrip(t)
    /\ LET ss == Commit(t, [Merge(GetOrCreate(t), LocationUpdate(body))
                               EXCEPT !.tracked = TRUE])
       IN  Continue(k,
                    [NoPush EXCEPT !.trip = t,
                                   !.body = body,
                                   !.snap = SnapshotOf(t, ss),
                                   !.atStart = Range(ss.listeners)],
                    [sessions EXCEPT ![t] = ss])
    /\ lastGet' = NoGet
    /\ UNCHANGED otherVars

\* push_location resumes after a send: a failed send marks the
\* connection dead, then the loop goes on
PushResume(k) ==
    /\ pushes[k].pc = "sending"
    /\ SendDone(pushes[k])
    /\ Continue(k,
                [pushes[k] EXCEPT
                    !.dead = IF pushes[k].ok THEN @ ELSE Append(@, pushes[k].cur)],
                sessions)
    /\ lastGet' = NoGet
    /\ UNCHANGED otherVars

\* the response of push_location leaves the server
PushReturn(k) ==
    /\ pushes[k].pc = "done"
    /\ pushes' = [pushes EXCEPT ![k] = [NoPush EXCEPT !.pc = "returned"]]
    /\ lastGet' = NoGet
    /\ UNCHANGED <<sessions, viewers, otherVars>>

\* ------------------------------------------------------ _fetch_route
\* Points are (latitude, longitude) in units of 0.0001 degree.
DispatchDefault == <<225847, 883426>>
Pickup == <<225726, 883639>>
Drop == <<225448, 883426>>
\* a point of the road network between two stops
Midway == <<225600, 883500>>

\* the routing service answers with GeoJSON positions, (longitude,
\* latitude)
LonLat(pt) == <<pt[2], pt[1]>>

\* What a request to the routing service ends in: no answer in time, an
\* HTTP error status, a body whose code is not "Ok", a body without
\* routes, or a route whose geometry is coords.
Failures == {"timeout", "http_error", "not_ok", "no_routes"}
Down == [kind |-> "timeout", coords |-> <<>>]
Responses(start, end) ==
    [kind : Failures, coords : {<<>>}]
       \cup [kind : {"ok"},
             coords : {<<LonLat(start), LonLat(end)>>,
                       <<LonLat(start), LonLat(Midway), LonLat(end)>>}]

\* the dispatch points of the model, and the answers to a request for
\* the leg from any of them to the pickup
Origins == {DispatchDefault} \cup {BaseOf(a) : a \in Amb}
FirstLegResponses == UNION {Responses(o, Pickup) : o \in Origins}

\* [(lat, lng) for lng, lat in coords]
RECURSIVE SwapAll(_)
SwapAll(coords) ==
    IF coords = <<>> THEN <<>>
    ELSE <<<<Head(coords)[2], Head(coords)[1]>>>> \o SwapAll(Tail(coords))

\* a fetch that lets the timeout of the request reach its caller
FetchRoute_RaiseOnTimeout(start, end, resp) ==
    IF resp.kind = "timeout" THEN [err |-> "timeout", pts |-> <<>>]
    ELSE IF resp.kind # "ok" THEN [err |-> "", pts |-> <<start, end>>]
    ELSE [err |-> "", pts |-> SwapAll(resp.coords)]

\* _fetch_route: every exception of the request and every answer that is
\* not an Ok body with routes ends in the straight line; err is the
\* exception that reaches the caller
FetchRoute(start, end, resp) ==
    IF resp.kind \in {"timeout", "http_error"}
    THEN [err |-> "", pts |-> <<start, end>>]
    ELSE IF resp.kind = "not_ok" \/ resp.kind = "no_routes"
    THEN [err |-> "", pts |-> <<start, end>>]
    ELSE [err |-> "", pts |-> SwapAll(resp.coords)]

\* the two legs put together without dropping the shared point
RouteCoords_KeepFirst(segment1, segment2) == segment1 \o segment2

\* route_coords = segment1 + segment2[1:]
RouteCoords(segment1, segment2) ==
    segment1 \o (IF segment2 = <<>> THEN <<>> ELSE Tail(segment2))

\* ------------------------------------------------- simulate_tracking
\* The record the simulation reads the driver from: the trip id is looked
\* up as a booking id first and as an SOS id next; the history bookings
\* of the model have ids of their own, so the SOS record is what is found.
AssignedFor(t) ==
    IF t \in 1..Len(sos) THEN sos[t].amb ELSE NoInfo

\* the fields _run_simulation writes at step i.  The bearing to the next
\* waypoint is taken as due south, and is 0 at the last point (the
\* bearing from a point to itself); eta is max(0, 8 * (1 - i / updates))
\* minutes, in seconds.
\* The position of step i on the route: float_index = i/updates * (n-1)
\* is split into idx and fraction, and the position is interpolated
\* between waypoints idx and idx + 1.  The positions of a session are in
\* 1/updates of the unit of the route points, which makes them integers.
\* (For routes of up to 75 points the floating point idx is the exact
\* floor taken here.)
SimLat(route, i) ==
    LET n == Len(route)
        idx == (i * (n - 1)) \div updates
        fraction == (i * (n - 1)) % updates
    IN  IF idx >= n - 1 THEN updates * route[n][1]
        ELSE updates * route[idx + 1][1]
                + (route[idx + 2][1] - route[idx + 1][1]) * fraction

\* the dispatch point: the base of the assigned ambulance when both of
\* its coordinates are truthy, the default otherwise
DispatchOrigin(info) ==
    IF /\ info # NoInfo
       /\ info.base[1] \notin {None, 0}
       /\ info.base[2] \notin {None, 0}
    THEN info.base
    ELSE DispatchDefault
SimHeading(i) == IF i = updates THEN 0 ELSE 180
SimEta(i) == IF 480 - 8 * i > 0 THEN 480 - 8 * i ELSE 0
\* progress < 0.1, < 0.85, < 0.95 in floating point, for progress = i/60
SimStatus(i) ==
    IF i < 6 THEN "dispatched"
    ELSE IF i < 51 THEN "en_route"
    ELSE IF i < 57 THEN "nearby"
    ELSE "arrived"

\* the session created before the environment is looked at
Simulate_CreateFirst(j, t) ==
    /\ sims[j].pc = "idle"
    /\ NextTrip(t)
    /\ IF appEnv # "development"
       THEN /\ sims' = [sims EXCEPT ![j] = [NoSim EXCEPT !.pc = "rejected",
                                                         !.trip = t]]
            /\ sessions' = [sessions EXCEPT ![t] = GetOrCreate(t)]
       ELSE /\ sims' = [sims EXCEPT
                          ![j] = [NoSim EXCEPT
                                    !.pc = "routing",
                                    !.trip = t,
                                    !.origin = DispatchOrigin(AssignedFor(t))]]
            /\ sessions' =
                  [sessions EXCEPT
                     ![t] = Commit(t,
                              [GetOrCreate(t) EXCEPT
                                  !.driver = IF AssignedFor(t) # NoInfo
                                             THEN "driver of the snapshot"
                                             ELSE "Rajesh Kumar",
                                  !.status = "dispatched"])]
    /\ lastGet' = NoGet
    /\ UNCHANGED <<viewers, pushes, appEnv, dispatchVars>>

\* simulate_tracking up to its first await: the environment check, then
\* the session and the driver fields, then the route is asked for.
\* Calls are numbered in the order they are made.
Simulate(j, t) ==
    /\ sims[j].pc = "idle"
    /\ \A i \in SimIds : i < j => sims[i].pc # "idle"
    /\ NextTrip(t)
    /\ IF appEnv # "development"
       THEN /\ sims' = [sims EXCEPT ![j] = [NoSim EXCEPT !.pc = "rejected",
                                                         !.trip = t]]
            /\ UNCHANGED sessions
       ELSE /\ sims' = [sims EXCEPT
                          ![j] = [NoSim EXCEPT
                                    !.pc = "routing",
                                    !.trip = t,
                                    !.origin = DispatchOrigin(AssignedFor(t))]]
            /\ sessions' =
                  [sessions EXCEPT
                     ![t] = Commit(t,
                              [GetOrCreate(t) EXCEPT
                                  !.driver = IF AssignedFor(t) # NoInfo
                                             THEN "driver of the snapshot"
                                             ELSE "Rajesh Kumar",
                                  !.status = "dispatched"])]
    /\ lastGet' = NoGet
    /\ UNCHANGED <<viewers, pushes, appEnv, dispatchVars>>

\* simulate_tracking resumes from its first await of _fetch_route with
\* the leg from the dispatch point to the pickup, and asks for the second
SimFetched(j, resp) ==
    /\ sims[j].pc = "routing"
    /\ resp \in Responses(sims[j].origin, Pickup)
    /\ LET res == FetchRoute(sims[j].origin, Pickup, resp)
       IN  sims' = [sims EXCEPT
                      ![j].pc = IF res.err = "" THEN "routing2" ELSE "failed",
                      ![j].err = res.err,
                      ![j].resp = resp,
                      ![j].seg1 = res.pts]
    /\ lastGet' = NoGet
    /\ UNCHANGED <<sessions, viewers, pushes, appEnv, dispatchVars>>

\* simulate_tracking resumes from its second await of _fetch_route with
\* the leg from the pickup to the drop: the legs are put together, the
\* task is created and the call returns
SimRouted(j, resp) ==
    /\ sims[j].pc = "routing2"
    /\ resp \in Responses(Pickup, Drop)
    /\ LET res == FetchRoute(Pickup, Drop, resp)
       IN  sims' = [sims EXCEPT
                      ![j].pc = IF res.err = "" THEN "started" ELSE "failed",
                      ![j].err = res.err,
                      ![j].resp = resp,
                      ![j].seg2 = res.pts,
                      ![j].route = IF res.err = ""
                                   THEN RouteCoords(sims[j].seg1, res.pts)
                                   ELSE <<>>]
    /\ lastGet' = NoGet
    /\ UNCHANGED <<sessions, viewers, pushes, appEnv, dispatchVars>>

\* the broadcast pass of _run_simulation from the end of one send to the
\* next await: as in push_location, but the pass ends in the sleep, and
\* an exception of list.remove ends the task
SimContinue(j, r, ss) ==
    LET t == r.trip
        ls == ss[t].listeners
    IN  IF r.idx < Len(ls)
        THEN LET v == ls[r.idx + 1]
                 open == viewers[v].st = "open"
             IN  /\ sims' = [sims EXCEPT
                               ![j] = [r EXCEPT !.pc = "sending",
                                                !.idx = @ + 1,
                                                !.cur = v,
                                                !.ok = open]]
                 /\ viewers' = IF open
                               THEN [viewers EXCEPT ![v].got = Append(@, r.snap)]
                               ELSE viewers
                 /\ sessions' = ss
        ELSE LET rm == RemoveDead(ls, r.dead)
             IN  /\ sims' = [sims EXCEPT
                               ![j] = [r EXCEPT
                                         !.pc = IF rm.err = "" THEN "sleeping"
                                                ELSE "failed",
                                         !.cur = None,
                                         !.err = rm.err]]
                 /\ sessions' = [ss EXCEPT ![t].listeners = rm.listeners]
                 /\ UNCHANGED viewers

\* a step that writes the position, yields, and writes the rest later
SimStep_PositionFirst(j, steps) ==
    /\ sims[j].pc \in {"started", "sleeping", "half"}
    /\ LET r == sims[j]
           t == r.trip
           i == IF r.pc = "started" THEN 0
                ELSE IF r.pc = "half" THEN r.i ELSE r.i + 1
       IN  IF i > updates
           THEN /\ sims' = [sims EXCEPT ![j].pc = "finished"]
                /\ UNCHANGED <<sessions, viewers>>
           ELSE IF r.pc # "half"
           THEN /\ i < steps
                /\ sessions' = [sessions EXCEPT ![t].lat = SimLat(r.route, i)]
                /\ sims' = [sims EXCEPT ![j].pc = "half", ![j].i = i]
                /\ UNCHANGED viewers
           ELSE LET ss == Commit(t, [sessions[t] EXCEPT
                                       !.heading = SimHeading(i),
                                       !.eta = SimEta(i),
                                       !.status = SimStatus(i),
                                       !.tracked = TRUE])
                IN  SimContinue(j,
                                [r EXCEPT !.snap = SnapshotOf(t, ss),
                                          !.idx = 0,
                                          !.dead = <<>>],
                                [sessions EXCEPT ![t] = ss])
    /\ lastGet' = NoGet
    /\ UNCHANGED <<pushes, appEnv, dispatchVars>>

\* _run_simulation from the start of the task, or from the end of a
\* sleep, to its next await: the loop ends after step updates, else
\* the fields of the step are written and the pass begins.  steps is how
\* many steps of a run are followed.
SimStep(j, steps) ==
    /\ sims[j].pc \in {"started", "sleeping"}
    /\ LET r == sims[j]
           t == r.trip
           i == IF r.pc = "started" THEN 0 ELSE r.i + 1
       IN  IF i > updates
           THEN /\ sims' = [sims EXCEPT ![j].pc = "finished"]
                /\ UNCHANGED <<sessions, viewers>>
           ELSE /\ i < steps
                /\ LET ss == Commit(t, [sessions[t] EXCEPT
                                           !.lat = SimLat(r.route, i),
                                           !.heading = SimHeading(i),
                                           !.eta = SimEta(i),
                                           !.status = SimStatus(i),
                                           !.tracked = TRUE])
                   IN  SimContinue(j,
                                   [r EXCEPT !.i = i,
                                             !.snap = SnapshotOf(t, ss),
                                             !.idx = 0,
                                             !.dead = <<>>],
                                   [sessions EXCEPT ![t] = ss])
    /\ lastGet' = NoGet
    /\ UNCHANGED <<pushes, appEnv, dispatchVars>>

\* _run_simulation resumes after a send
SimResume(j) ==
    /\ sims[j].pc = "sending"
    /\ SendDone(sims[j])
    /\ SimContinue(j,
                   [sims[j] EXCEPT
                       !.dead = IF sims[j].ok THEN @ ELSE Append(@, sims[j].cur)],
                   sessions)
    /\ lastGet' = NoGet
    /\ UNCHANGED <<pushes, appEnv, dispatchVars>>

\* get_location: 404 without a session, else its snapshot
GetLocation(t) ==
    /\ lastGet' = IF sessions[t].exists
                  THEN [trip |-> t, found |-> TRUE,
                        snap |-> SnapshotOf(t, sessions[t])]
                  ELSE [trip |-> t, found |-> FALSE, snap |-> NoSnap]
    /\ UNCHANGED <<sessions, viewers, pushes, sims, appEnv, dispatchVars>>

NextTrack ==
    \/ \E v \in Viewers, t \in Trips : Subscribe(v, t)
    \/ \E v \in Viewers : Break(v)
    \/ \E v \in Viewers : Finalize(v)
    \/ \E k \in PushIds, t \in Trips, body \in Updates :
          PushLocation(k, t, body)
    \/ \E k \in PushIds : PushResume(k)
    \/ \E k \in PushIds : PushReturn(k)

SpecTrack == Init /\ [][NextTrack]_vars

\* viewers that connect and may stop reading, and pushes.  The event loop
\* resumes a call whose send is over, and a finished call returns.
NextStall ==
    \/ \E v \in Viewers, t \in Trips : Subscribe(v, t)
    \/ \E v \in Viewers : Stall(v)
    \/ \E v \in Viewers : Break(v)
    \/ \E v \in Viewers : Finalize(v)
    \/ \E k \in PushIds, t \in Trips, body \in SimUpdates :
          PushLocation(k, t, body)
    \/ \E k \in PushIds : PushResume(k)
    \/ \E k \in PushIds : PushReturn(k)

SpecStall ==
    /\ Init
    /\ [][NextStall]_vars
    /\ \A k \in PushIds : WF_vars(PushResume(k)) /\ WF_vars(PushReturn(k))

\* viewers that connect and pushes, with get_location calls in between
NextGet ==
    \/ \E v \in Viewers, t \in Trips : Subscribe(v, t)
    \/ \E k \in PushIds, t \in Trips, body \in Updates :
          PushLocation(k, t, body)
    \/ \E k \in PushIds : PushResume(k)
    \/ \E k \in PushIds : PushReturn(k)
    \/ \E t \in Trips : GetLocation(t)

SpecGet == Init /\ [][NextGet]_vars

\* ------------------------------------------ a simulation among the rest
\* One simulate_tracking call among viewers that come and go, a
\* push_location call and get_location calls, on every trip id, in a
\* development and in a production environment.
InitSim ==
    /\ amb = [a \in Amb |-> [exists |-> TRUE, status |-> "available",
                              asg |-> None, bk |-> None,
                              base |-> BaseOf(a)]]
    /\ sos = <<>>
    /\ bookings = [s \in SosIds |-> NoBooking]
    /\ otp = [k \in SosIds \X Phones |-> None]
    /\ pr = [p \in Procs |-> Idle]
    /\ held = [a \in Amb |-> FALSE]
    /\ tries = [s \in SosIds |-> 0]
    /\ uses = [k \in SosIds \X Phones |-> 0]
    /\ relHist = NoRelease
    /\ reqLeft = 0
    /\ sessions = [t \in Trips |-> DefaultSession]
    /\ viewers = [v \in Viewers |-> NoViewer]
    /\ pushes = [k \in PushIds |-> NoPush]
    /\ lastGet = NoGet
    /\ sims = [j \in SimIds |-> NoSim]
    /\ appEnv \in {"development", "production"}

NextSim ==
    \/ \E v \in SimViewers, t \in Trips : Subscribe(v, t)
    \/ \E v \in SimViewers : Break(v)
    \/ \E v \in SimViewers : Finalize(v)
    \/ \E t \in Trips, body \in SimUpdates : PushLocation(1, t, body)
    \/ PushResume(1)
    \/ PushReturn(1)
    \/ \E t \in Trips : GetLocation(t)
    \/ \E t \in Trips : Simulate(1, t)
    \/ SimFetched(1, Down)
    \/ SimRouted(1, Down)
    \/ SimStep(1, SimStepsFollowed)
    \/ SimResume(1)

SpecSim == InitSim /\ [][NextSim]_vars

\* ------------------------------------- a simulation and the trip's SOS
\* One client activates and cancels SOS events while a simulation runs
\* for trip 1, the id of the first SOS event, with viewers on the trip.
NextSimCancel ==
    \/ \E loc \in SosLocs : Activate(1, loc, 1)
    \/ FaLoad(1)
    \/ FaWrite(1)
    \/ ActStore(1)
    \/ \E s \in SosIds, reason \in Reasons : Cancel(1, s, reason)
    \/ RlGet(1)
    \/ RlWrite(1)
    \/ CnWrite(1)
    \/ Return(1)
    \/ \E v \in SimViewers : Subscribe(v, 1)
    \/ Simulate(1, 1)
    \/ SimFetched(1, Down)
    \/ SimRouted(1, Down)
    \/ SimStep(1, SimStepsFollowed)
    \/ SimResume(1)

SpecSimCancel == Init /\ [][NextSimCancel]_vars

\* ------------------------------------------ simulations of one trip
\* simulate is called for trip 1 more than once, each call while the
\* tasks of the earlier ones may still run; the routing service is down.
NextTwoSims ==
    \/ \E v \in SimViewers : Subscribe(v, 1)
    \/ \E j \in SimIds : Simulate(j, 1)
    \/ \E j \in SimIds : SimFetched(j, Down)
    \/ \E j \in SimIds : SimRouted(j, Down)
    \/ \E j \in SimIds : SimStep(j, SimStepsFollowed)
    \/ \E j \in SimIds : SimResume(j)

SpecTwoSims == Init /\ [][NextTwoSims]_vars

\* ---------------------------------------------- one run to its end
\* One simulation of trip 1, followed through all its steps, with
\* viewers that connect at any time and stay, for every route.
NextRun ==
    \/ \E v \in SimViewers : Subscribe(v, 1)
    \/ Simulate(1, 1)
    \/ \E resp \in FirstLegResponses : SimFetched(1, resp)
    \/ \E resp \in Responses(Pickup, Drop) : SimRouted(1, resp)
    \/ SimStep(1, updates + 1)
    \/ SimResume(1)

SpecRun == Init /\ [][NextRun]_vars

\* ------------------------------------------- the routes of a simulation
\* A logged-in client activates SOS events, and a simulation is started
\* for trip 1 against every answer of the routing service.
NextRoute ==
    \/ \E loc \in SosLocs : Activate(1, loc, 1)
    \/ FaLoad(1)
    \/ FaWrite(1)
    \/ ActStore(1)
    \/ Return(1)
    \/ \E v \in SimViewers : Subscribe(v, 1)
    \/ Simulate(1, 1)
    \/ \E resp \in FirstLegResponses : SimFetched(1, resp)
    \/ \E resp \in Responses(Pickup, Drop) : SimRouted(1, resp)
    \/ SimStep(1, SimStepsFollowed)
    \/ SimResume(1)

SpecRoute == Init /\ [][NextRoute]_vars

\* --------------------------------------------- the merge on every session
\* One push_location without viewers, on a trip that has no session yet
\* or has one left in any state by earlier pushes.
MergeSessions ==
    {DefaultSession} \cup
    [exists : {TRUE}, lat : {0, 2}, heading : {0, 90}, eta : {480, 0},
     status : {"dispatched", "en_route"}, driver : {"", "A"},
     listeners : {<<>>}, tracked : {TRUE}, commits : {{}}]

InitMerge ==
    /\ amb = [a \in Amb |-> [exists |-> TRUE, status |-> "available",
                              asg |-> None, bk |-> None,
                              base |-> BaseOf(a)]]
    /\ sos = <<>>
    /\ bookings = [s \in SosIds |-> NoBooking]
    /\ otp = [k \in SosIds \X Phones |-> None]
    /\ pr = [p \in Procs |-> Idle]
    /\ held = [a \in Amb |-> FALSE]
    /\ tries = [s \in SosIds |-> 0]
    /\ uses = [k \in SosIds \X Phones |-> 0]
    /\ relHist = NoRelease
    /\ reqLeft = 0
    /\ sessions \in {[t \in Trips |-> IF t = 1 THEN ss ELSE DefaultSession] :
                        ss \in MergeSessions}
    /\ viewers = [v \in Viewers |-> NoViewer]
    /\ pushes = [k \in PushIds |-> NoPush]
    /\ lastGet = NoGet
    /\ sims = [j \in SimIds |-> NoSim]
    /\ appEnv = "development"

NextMerge ==
    \/ \E body \in MergeUpdates : PushLocation(1, 1, body)
    \/ PushReturn(1)

SpecMerge == InitMerge /\ [][NextMerge]_vars

\* =================================================================== claims
AfterWrite(p) == pr[p].pc \in {"act_store", "vf_write"} /\ pr[p].info # NoInfo
Terminal == {"cancelled", "completed"}
PreDispatch == {"initiated", "countdown", "otp_sent"}

\* C1: for every interleaving of concurrent find_and_assign calls no
\* ambulance is reserved by two calls at once: a call never returns an
\* ambulance that another call has written to on_trip after this call
\* loaded its candidates (no release can lie between that write and this
\* load).
C1_ExclusiveReservation ==
    \A p \in Procs : AfterWrite(p) => ~pr[p].raced

\* C2: the status of an SOS record changes only along the documented
\* edges (send_verification: pre-dispatch -> otp_sent, verify:
\* pre-dispatch -> dispatched, cancel: non-terminal -> cancelled), and an
\* attempt from another state is rejected naming the current state and
\* changes neither the record nor any ambulance.
C2_DocumentedEdge(old, new) ==
    \/ old \in PreDispatch /\ new \in {"otp_sent", "dispatched"}
    \/ old \notin Terminal /\ new = "cancelled"

C2_OnlyDocumentedEdges ==
    [][/\ \A s \in 1..Len(sos) :
             sos'[s].status # sos[s].status
                => C2_DocumentedEdge(sos[s].status, sos'[s].status)
       /\ \A p \in Procs :
             (pr[p].pc = "idle" /\ pr'[p].pc = "done" /\ pr'[p].ret.err = "state")
                => /\ pr'[p].ret.status = sos[pr'[p].sid].status
                   /\ sos' = sos
                   /\ amb' = amb]_vars

\* C3: once an SOS record is cancelled or completed no later write changes
\* its status, verified_phone, assigned_ambulance or cancel_reason and no
\* ambulance is reserved for it, in every interleaving.
C3_TerminalImmutable ==
    [][\A s \in 1..Len(sos) :
          sos[s].status \in Terminal
             => /\ sos'[s] = sos[s]
                /\ \A a \in Amb : amb'[a].asg = s => amb[a].asg = s]_vars

\* C4: when cancel has marked an SOS that held an ambulance snapshot as
\* cancelled, the release of that ambulance has already written its status
\* to available (an ambulance deleted from the pool has no status left to
\* set).
C4_ReleaseBeforeMark ==
    \A p \in Procs :
        (/\ pr[p].op = "cancel"
         /\ pr[p].ret.status = "cancelled"
         /\ pr[p].target # None
         /\ amb[pr[p].target].exists)
            => pr[p].rel = "written"

C4_Witness ==
    \E p \in Procs :
        /\ pr[p].op = "cancel"
        /\ pr[p].pc = "done"
        /\ pr[p].ret.err = ""
        /\ pr[p].target # None
        /\ pr[p].rel = "written"
        /\ sos[pr[p].sid].status = "cancelled"

\* C5: after find_and_assign returns ambulance a its status is on_trip,
\* and no find_and_assign call that loads its candidates later returns a
\* until release(a) has been called.
C5_ExcludedUntilRelease ==
    [][\A p \in Procs :
          (pr[p].pc = "fa_write" /\ pr'[p].pc # "fa_write" /\ pr'[p].info # NoInfo)
             => /\ amb'[pr[p].chosen.id].status = "on_trip"
                /\ ~pr[p].heldAtLoad]_vars

\* ---- the selection claims, stated on the pool as it is when loaded
BaseKnown(a) == amb[a].base[1] # None /\ amb[a].base[2] # None
Available == {a \in Amb : amb[a].exists /\ amb[a].status = "available"}
KnownAvailable == {a \in Available : BaseKnown(a)}
Loaded(p) == pr[p].pc = "fa_write" /\ LocGiven(pr[p].loc)
DistTo(p, a) == HaversineM(pr[p].loc[1], pr[p].loc[2],
                           amb[a].base[1], amb[a].base[2])

\* C6: with a caller location and at least one available ambulance of
\* known base, find_and_assign picks the available ambulance of known base
\* nearest to the caller, the earlier one in pool order among equals, and
\* returns that one.
C6_NearestKnown ==
    \A p \in Procs :
        /\ (Loaded(p) /\ KnownAvailable # {})
              => /\ pr[p].chosen.id \in KnownAvailable
                 /\ \A b \in KnownAvailable :
                       \/ DistTo(p, pr[p].chosen.id) < DistTo(p, b)
                       \/ /\ DistTo(p, pr[p].chosen.id) = DistTo(p, b)
                          /\ pr[p].chosen.id <= b
        /\ (pr[p].pc = "act_store" /\ pr[p].chosen # NoChoice)
              => pr[p].info.ambulance_id = pr[p].chosen.id

C6_Witness ==
    \E p \in Procs :
        /\ Loaded(p)
        /\ \E b \in KnownAvailable :
              /\ b < pr[p].chosen.id
              /\ DistTo(p, pr[p].chosen.id) < DistTo(p, b)

\* C7: with a caller location, find_and_assign picks an ambulance of
\* unknown base only when no available ambulance has a known base.
C7_UnknownLast ==
    \A p \in Procs :
        (Loaded(p) /\ ~BaseKnown(pr[p].chosen.id)) => KnownAvailable = {}

C7_Witness ==
    \E p \in Procs :
        /\ Loaded(p)
        /\ BaseKnown(pr[p].chosen.id)
        /\ \E b \in Available : ~BaseKnown(b) /\ b < pr[p].chosen.id

\* C8: activate with a caller id returns and persists a record with status
\* dispatched whose assigned_ambulance is the snapshot find_and_assign
\* returned, and null when nothing was reserved (no available ambulance or
\* a failed assignment).
C8_AutoDispatch ==
    \A p \in Procs :
        (pr[p].op = "activate" /\ sos[pr[p].sid].user # None)
           => /\ sos[pr[p].sid].status = "dispatched"
              /\ pr[p].ret.err = ""
              /\ pr[p].ret.status = "dispatched"
              /\ pr[p].pc = "done"
                    => /\ pr[p].ret.amb = pr[p].info
                       /\ sos[pr[p].sid].amb = pr[p].info
                       /\ bookings[pr[p].sid].exists

C8_Witness ==
    \E p \in Procs :
        /\ pr[p].op = "activate"
        /\ pr[p].pc = "done"
        /\ sos[pr[p].sid].user # None
        /\ Available = {}
        /\ sos[pr[p].sid].amb = NoInfo
        /\ sos[pr[p].sid].status = "dispatched"

\* C9: activate without a caller id creates a record with status
\* initiated, verified_phone null and assigned_ambulance null, returns it,
\* and changes no ambulance.
C9_AnonymousActivate ==
    [][\A p \in Procs :
          (pr'[p].op = "activate" /\ pr[p].op # "activate"
             /\ sos'[pr'[p].sid].user = None)
             => /\ pr'[p].pc = "done"
                /\ pr'[p].ret.status = "initiated"
                /\ Len(sos') = Len(sos) + 1
                /\ sos'[pr'[p].sid].status = "initiated"
                /\ sos'[pr'[p].sid].phone = None
                /\ sos'[pr'[p].sid].amb = NoInfo
                /\ amb' = amb]_vars

C9_Witness ==
    \E p \in Procs :
        /\ pr[p].op = "activate"
        /\ pr[p].pc = "done"
        /\ sos[pr[p].sid].user = None
        /\ sos[pr[p].sid].status = "initiated"

\* C10: a send_verification admitted from a pre-dispatch state sets the
\* status to otp_sent when the OTP collaborator reports success, leaves the
\* status unchanged when it reports failure, and never changes
\* verified_phone, assigned_ambulance or any ambulance.
C10_SendVerification ==
    [][\A p \in Procs :
          (pr[p].op = "send_verification" /\ pr'[p] # pr[p])
             => LET s == pr[p].sid
                IN  /\ amb' = amb
                    /\ sos'[s].phone = sos[s].phone
                    /\ sos'[s].amb = sos[s].amb
                    /\ (pr'[p].pc = "done" /\ pr'[p].ret.err = "")
                          => sos'[s].status = "otp_sent"
                    /\ (pr'[p].pc = "done" /\ pr'[p].ret.err = "send")
                          => sos'[s].status = sos[s].status]_vars

C10_Witness ==
    \E p \in Procs :
        /\ pr[p].op = "send_verification"
        /\ pr[p].pc = "done"
        /\ pr[p].ret.err = ""
        /\ sos[pr[p].sid].status = "otp_sent"

\* C11: a verify whose OTP check fails (wrong code, no pending code, or an
\* expired one) is rejected, and neither its admission nor its rejection
\* changes anything: no SOS record, no ambulance, no booking, and the
\* pending code stays in the OTP store.
C11_FailedVerifyNoEffect ==
    [][\A p \in Procs :
          /\ (pr'[p].op = "verify" /\ pr'[p] # pr[p]
                 /\ (pr'[p].pc = "vf_get"
                        \/ (pr'[p].pc = "done" /\ pr'[p].ret.err = "otp")))
                => /\ sos' = sos
                   /\ amb' = amb
                   /\ bookings' = bookings
                   /\ otp' = otp
          /\ (pr[p].pc = "vf_get" /\ pr'[p] # pr[p]
                 /\ otp[OtpKey(pr[p].sid, pr[p].phone)] # pr[p].code)
                => (pr'[p].pc = "done" /\ pr'[p].ret.err = "otp")]_vars

C11_Witness ==
    \E p \in Procs :
        /\ pr[p].op = "verify"
        /\ pr[p].pc = "done"
        /\ pr[p].ret.err = "otp"
        /\ otp[OtpKey(pr[p].sid, pr[p].phone)] # None
        /\ otp[OtpKey(pr[p].sid, pr[p].phone)] # pr[p].code
        /\ sos[pr[p].sid].status = "otp_sent"

\* C12: a verify that presents the pending code of its SOS and phone,
\* after any number of rejected wrong codes, passes the OTP check and ends
\* with the record dispatched and verified_phone set to its phone, whether
\* or not an ambulance was assigned; the assignment is attempted with the
\* location stored in the record.
C12_VerifyDispatches ==
    [][\A p \in Procs :
          (pr[p].op = "verify" /\ pr'[p] # pr[p])
             => LET s == pr[p].sid
                IN  /\ (pr[p].pc = "vf_get"
                           /\ otp[OtpKey(s, pr[p].phone)] = pr[p].code)
                          => pr'[p].pc = "vf_del"
                    /\ pr[p].pc = "fa_load" => pr[p].loc = sos[s].loc
                    /\ (pr[p].pc \in {"vf_del", "fa_load", "fa_write", "vf_write"}
                           /\ pr'[p].pc = "done")
                          => /\ pr'[p].ret.err = ""
                             /\ pr'[p].ret.status = "dispatched"
                             /\ sos'[s].status = "dispatched"
                             /\ sos'[s].phone = pr[p].phone]_vars

C12_Witness ==
    \E p \in Procs :
        /\ pr[p].op = "verify"
        /\ pr[p].pc = "done"
        /\ pr[p].ret.err = ""
        /\ tries[pr[p].sid] >= 2
        /\ pr[p].info = NoInfo
        /\ sos[pr[p].sid].status = "dispatched"
        /\ sos[pr[p].sid].phone = pr[p].phone

\* C13: release is idempotent: a second release(a) right after the first
\* leaves every ambulance as the first left it, and no release raises,
\* whatever the status of the ambulance.
C13_ReleaseIdempotent ==
    \A p \in Procs :
        (pr[p].op = "release" /\ pr[p].pc = "done")
           => /\ pr[p].ret.err = ""
              /\ relHist.a = pr[p].target
              /\ relHist.n >= 2 => amb = relHist.pool

C13_Witness ==
    \E p \in Procs :
        /\ pr[p].op = "release"
        /\ pr[p].pc = "done"
        /\ pr[p].rel = "written"
        /\ relHist.n = 2
        /\ amb[pr[p].target].status = "available"
        /\ amb[pr[p].target].asg = None

\* C14: in every reachable state a registered ambulance has a current
\* assignment if and only if its status is on_trip.
C14_AssignmentIffOnTrip ==
    \A a \in Amb :
        amb[a].exists => (amb[a].asg # None <=> amb[a].status = "on_trip")

\* C15: a find_and_assign that finds at write time that the ambulance it
\* selected is no longer available does not write it and does not return
\* it (it selects again, once).
C15_ConditionalWrite ==
    [][\A p \in Procs :
          (/\ pr[p].pc = "fa_write"
           /\ pr'[p].pc # "fa_write"
           /\ amb[pr[p].chosen.id].exists
           /\ amb[pr[p].chosen.id].status # "available")
             => /\ amb' = amb
                /\ pr'[p].info.ambulance_id # pr[p].chosen.id]_vars

\* C16: when no ambulance is available, find_and_assign returns null
\* without raising, goes on to no write, and leaves every ambulance as it
\* is.
C16_NoCapacity ==
    [][\A p \in Procs :
          (pr[p].pc = "fa_load" /\ pr'[p] # pr[p] /\ Available = {})
             => /\ amb' = amb
                /\ pr'[p].pc = AfterAssign(pr[p].op)
                /\ pr'[p].info = NoInfo
                /\ pr'[p].ret.err = ""]_vars

C16_Witness ==
    \E p \in Procs :
        /\ pr[p].pc \in {"act_store", "vf_write"}
        /\ pr[p].chosen = NoChoice
        /\ pr[p].info = NoInfo
        /\ Available = {}
        /\ \A a \in Amb : amb[a].exists /\ amb[a].asg = None

\* C17: the snapshot stored in an SOS record is a copy: no write to the
\* ambulance collection (operator edit, status change, deletion, the
\* reservation of a later find_and_assign, a release) and no step of
\* find_and_assign or release changes a stored snapshot.
C17_SnapshotIsCopy ==
    [][(\/ amb' # amb
        \/ \E p \in Procs :
              /\ pr[p].pc \in {"fa_load", "fa_write", "rl_get", "rl_write"}
              /\ pr'[p] # pr[p])
          => /\ Len(sos') = Len(sos)
             /\ \A s \in 1..Len(sos) : sos'[s].amb = sos[s].amb]_vars

C17_Witness ==
    \E s \in 1..Len(sos) :
        /\ sos[s].amb # NoInfo
        /\ amb[sos[s].amb.ambulance_id].exists
        /\ amb[sos[s].amb.ambulance_id].base # sos[s].amb.base
        /\ amb[sos[s].amb.ambulance_id].status # "on_trip"

\* ---- the tracking claims
ListenersOf(t) == Range(sessions[t].listeners)
ListenersIn(ss, t) == Range(ss[t].listeners)

\* C18: push_location for trip t sends the snapshot it merged to every
\* connection that was in t's listeners when the broadcast began (and is
\* still connected when the call returns), writes to no connection of
\* another trip, and leaves the session of every other trip as it is.
C18_BroadcastToOwnViewers ==
    [][\A k \in PushIds :
          (pushes'[k] # pushes[k] /\ pushes'[k].pc \in {"sending", "done"})
             => LET t == pushes'[k].trip
                IN  /\ \A u \in Trips \ {t} : sessions'[u] = sessions[u]
                    /\ \A v \in Viewers :
                          viewers'[v] # viewers[v]
                             => /\ viewers[v].trip = t
                                /\ viewers'[v].got =
                                      Append(viewers[v].got, pushes'[k].snap)
                    /\ pushes[k].pc = "idle"
                          => pushes'[k].snap = SnapshotOf(t, sessions'[t])
                    /\ pushes'[k].pc = "done"
                          => \A v \in pushes'[k].atStart :
                                viewers'[v].st = "open"
                                   => v \in pushes'[k].sentTo]_vars

\* C19: a failed send neither ends the pass (the next listener, if there
\* is one, is served) nor fails the push; no listener is removed while the
\* pass runs, and at its end exactly the connections whose send failed are
\* removed.
C19_FailedSendTolerated ==
    [][\A k \in PushIds :
          pushes'[k] # pushes[k]
             => LET t == pushes'[k].trip
                IN  /\ pushes'[k].pc = "done" => pushes'[k].err = ""
                    /\ (/\ pushes[k].pc = "sending"
                        /\ ~pushes[k].ok
                        /\ pushes[k].idx < Len(sessions[t].listeners))
                          => pushes'[k].pc = "sending"
                    /\ (pushes[k].pc = "sending" /\ pushes'[k].pc = "sending")
                          => sessions'[t].listeners = sessions[t].listeners
                    /\ (pushes[k].pc = "sending" /\ pushes'[k].pc = "done")
                          => ListenersIn(sessions', t) =
                                ListenersOf(t) \ Range(pushes'[k].dead)]_vars

\* C20: a connection joins the listeners of its trip and gets the current
\* snapshot (the default one when the session is new) as its first
\* message, ahead of every push; once its handler has ended, after a close
\* or an error, it is in no listener list, and from the moment the
\* connection is lost it gets no message.
C20_SubscribeAndDisconnect ==
    [][\A v \in Viewers :
          /\ viewers[v].st = "none"
                => /\ viewers[v].got = <<>>
                   /\ \A t \in Trips : v \notin ListenersOf(t)
          /\ (viewers[v].st = "none" /\ viewers'[v].st # "none")
                => LET t == viewers'[v].trip
                   IN  /\ viewers'[v].st = "open"
                       /\ v \in ListenersIn(sessions', t)
                       /\ viewers'[v].got =
                             <<SnapshotOf(t, IF sessions[t].exists
                                             THEN sessions[t]
                                             ELSE DefaultSession)>>
          /\ (viewers[v].st = "open" /\ viewers'[v].st = "open")
                => viewers'[v].got[1] = viewers[v].got[1]
          /\ viewers[v].st \in {"broken", "closed"}
                => Len(viewers'[v].got) <= Len(viewers[v].got)
          /\ viewers'[v].st = "closed"
                => \A t \in Trips : v \notin ListenersIn(sessions', t)]_vars

C20_Witness ==
    \E v, w \in Viewers, k \in PushIds :
        /\ viewers[v].st = "open"
        /\ viewers[w].st = "closed"
        /\ viewers[w].trip = viewers[v].trip
        /\ pushes[k].pc = "done"
        /\ pushes[k].trip = viewers[v].trip
        /\ w \notin pushes[k].sentTo
        /\ Len(viewers[v].got) = 2
        /\ viewers[v].got[1] = SnapshotOf(viewers[v].trip, DefaultSession)
        /\ viewers[v].got[2] = pushes[k].snap

\* C24: a cancel that runs after an earlier cancel of the same SOS stopped
\* between its release and its update ends as an uninterrupted cancel
\* does: its release changes no ambulance and does not raise, the record
\* is cancelled with the reason given and its snapshot kept, and the
\* ambulance of the snapshot is available without assignment.
C24_CancelRetry ==
    [][\A p \in Procs :
          (/\ pr[p].op = "cancel"
           /\ pr[p].target # None
           /\ pr[p].pc \in {"rl_write", "cn_write"}
           /\ ~pr[p].heldAtRelease
           /\ pr'[p] # pr[p])
             => /\ pr[p].pc = "rl_write"
                      => /\ amb' = amb
                         /\ pr'[p].pc = "cn_write"
                /\ pr'[p].pc = "done"
                      => /\ pr'[p].ret.err = ""
                         /\ sos'[pr[p].sid].status = "cancelled"
                         /\ sos'[pr[p].sid].reason = pr[p].reason
                         /\ sos'[pr[p].sid].amb = pr[p].info
                         /\ amb'[pr[p].target].status = "available"
                         /\ amb'[pr[p].target].asg = None]_vars

C24_Witness ==
    \E p \in Procs :
        /\ pr[p].op = "cancel"
        /\ pr[p].pc = "done"
        /\ pr[p].ret.err = ""
        /\ pr[p].target # None
        /\ ~pr[p].heldAtRelease
        /\ pr[p].rel = "written"
        /\ sos[pr[p].sid].status = "cancelled"
        /\ amb[pr[p].target].status = "available"

\* C25: verified_phone is written only by a verify of that record that
\* has passed the OTP check with that phone, and a record in initiated,
\* countdown or otp_sent has neither a verified_phone nor an
\* assigned_ambulance.
C25_PhoneOnlyAfterVerify ==
    [][\A s \in 1..Len(sos') :
          /\ sos'[s].status \in PreDispatch
                => /\ sos'[s].phone = None
                   /\ sos'[s].amb = NoInfo
          /\ (s <= Len(sos) /\ sos'[s].phone # sos[s].phone)
                => \E p \in Procs :
                      /\ pr[p].op = "verify"
                      /\ pr[p].pc = "vf_write"
                      /\ pr[p].sid = s
                      /\ pr[p].phone = sos'[s].phone]_vars

\* C26: a verify passes the OTP check only with the code that is pending
\* under the key of its own SOS and phone, and a pending code is used by
\* at most one verify: once a verify has matched it, no second verify
\* passes on it.
C26_CodeScopedAndSingleUse ==
    [][\A p \in Procs :
          (pr[p].pc = "vf_get" /\ pr'[p].pc = "vf_del")
             => LET k == OtpKey(pr[p].sid, pr[p].phone)
                IN  /\ otp[k] # None
                    /\ otp[k] = pr[p].code
                    /\ uses'[k] <= 1]_vars

\* C27: while an ambulance is reserved for an SOS and not released, the
\* reverse lookup for that SOS id returns it; for an SOS id that no
\* ambulance is assigned to, the lookup returns null.
C27_ReverseLookup ==
    \A s \in SosIds :
        /\ \A a \in Amb :
              (amb[a].exists /\ held[a] /\ amb[a].asg = s)
                 => GetAssignmentForBooking(amb, s) = a
        /\ (\A a \in Amb : ~(amb[a].exists /\ amb[a].asg = s))
              => GetAssignmentForBooking(amb, s) = None

\* C22: push_location merges field by field: the position is overwritten,
\* and each optional field takes the value of the request body when the
\* body holds one, the value 0 of heading, speed and eta included, and
\* keeps the value of the session when the body leaves it out or null.
C22_Held(x) == x \notin {Absent, None}

C22_MergeFieldByField ==
    [][\A k \in PushIds :
          (pushes[k].pc = "idle" /\ pushes'[k].pc # "idle")
             => LET b == pushes'[k].body
                    t == pushes'[k].trip
                    old == IF sessions[t].exists THEN sessions[t]
                           ELSE DefaultSession
                    new == sessions'[t]
                IN  /\ new.lat = b.lat
                    /\ new.heading = IF C22_Held(b.heading)
                                     THEN b.heading ELSE old.heading
                    /\ new.eta = IF C22_Held(b.eta) THEN b.eta ELSE old.eta
                    /\ new.status = IF b.status # NoText
                                    THEN b.status ELSE old.status
                    /\ new.driver = IF b.driver # NoText
                                    THEN b.driver ELSE old.driver]_vars

\* C21: get_location(t) answers NotFound exactly when trip t has no
\* session, answers the snapshot of the session otherwise, and changes no
\* session; a trip for which no position was ever written is answered
\* NotFound.
C21_GetLocation ==
    [][lastGet'.trip # None
          => LET t == lastGet'.trip
             IN  /\ lastGet'.found = sessions[t].exists
                 /\ lastGet'.found
                       => lastGet'.snap = SnapshotOf(t, sessions[t])
                 /\ sessions' = sessions
                 /\ ~sessions[t].tracked => ~lastGet'.found]_vars

\* C23: outside a development environment simulate_tracking is rejected
\* and changes nothing: no session is created or changed, no viewer gets
\* a message, and the call never goes on to the route fetch or to the
\* background task.
C23_SimulateRejected ==
    [][\A j \in SimIds :
          /\ appEnv # "development"
                => sims'[j].pc \in {"idle", "rejected"}
          /\ (sims[j].pc = "idle" /\ sims'[j].pc = "rejected")
                => /\ sessions' = sessions
                   /\ viewers' = viewers
                   /\ pushes' = pushes]_vars

C23_Witness ==
    \E j \in SimIds, v \in Viewers :
        /\ appEnv = "production"
        /\ sims[j].pc = "rejected"
        /\ ~sessions[sims[j].trip].exists
        /\ viewers[v].st = "open"
        /\ Len(viewers[v].got) = 1

\* C28: every snapshot that is delivered to a viewer or returned by
\* get_location is the session as one complete write left it (the
\* creation of the session, the merge of a push, the setup of a
\* simulation or one of its steps), and no step of an operation waits
\* for an operation on another trip: whatever the other operations are
\* at, a push or a simulation step suspended in a send can resume.
C28_WholeSnapshots ==
    [][/\ \A v \in Viewers :
             Len(viewers'[v].got) > Len(viewers[v].got)
                => viewers'[v].got[Len(viewers'[v].got)]
                      \in sessions'[viewers'[v].trip].commits
       /\ (lastGet'.trip # None /\ lastGet'.found)
             => lastGet'.snap \in sessions'[lastGet'.trip].commits
       /\ \A k \in PushIds :
             pushes[k].pc = "sending" => ENABLED PushResume(k)
       /\ \A j \in SimIds :
             sims[j].pc = "sending" => ENABLED SimResume(j)]_vars

C28_Witness ==
    \E j \in SimIds, v \in Viewers, k \in PushIds :
        /\ sims[j].pc = "sending"
        /\ sims[j].i = 1
        /\ sims[j].cur = v
        /\ viewers[v].st = "open"
        /\ viewers[v].trip = sims[j].trip
        /\ pushes[k].pc = "sending"
        /\ pushes[k].cur = v
        /\ Len(viewers[v].got) = 4
        /\ viewers[v].got[3] = pushes[k].snap
        /\ viewers[v].got[4] = sims[j].snap

\* C29: a push_location call that has begun its broadcast returns to its
\* caller, even when a viewer of the trip has stopped reading.
C29_PushCompletes ==
    \A k \in PushIds :
        (pushes[k].pc = "sending") ~> (pushes[k].pc = "returned")

\* C30: once the SOS event of a trip is cancelled or completed, the
\* simulation of the trip begins no further step: it writes no position
\* and starts no broadcast after the one it was in.
C30_SimulationStops ==
    [][\A j \in SimIds :
          LET t == sims[j].trip
          IN  (/\ sims[j].pc \in {"started", "sleeping"}
               /\ t \in 1..Len(sos)
               /\ sos[t].status \in Terminal)
                 => \/ sims'[j] = sims[j]
                    \/ /\ sims'[j].pc \in {"finished", "stopped"}
                       /\ sessions' = sessions
                       /\ viewers' = viewers]_vars

\* the ambulances that are on a trip for SOS s
ReservedFor(s) ==
    {a \in Amb : amb[a].exists /\ amb[a].status = "on_trip" /\ amb[a].asg = s}

\* C34: at most one ambulance is on a trip for one SOS, whatever verify
\* calls on that SOS overlap.
C34_OneAmbulancePerSos ==
    \A s \in SosIds : Cardinality(ReservedFor(s)) <= 1

\* no request is between two of its store calls
Quiescent == \A p \in Procs : pr[p].pc \in {"idle", "done"}

\* C33: when no SOS operation is in progress, an ambulance that is on a
\* trip for SOS s belongs to a record s that exists, is dispatched and
\* carries that ambulance in its snapshot.
C33_NoOrphanReservation ==
    Quiescent
       => \A a \in Amb :
             (amb[a].exists /\ amb[a].status = "on_trip" /\ amb[a].asg # None)
                => LET s == amb[a].asg
                   IN  /\ s \in 1..Len(sos)
                       /\ sos[s].status = "dispatched"
                       /\ sos[s].amb.ambulance_id = a

\* C32: a cancel of an SOS or of a booking makes available only an
\* ambulance whose current reservation is that of the cancelled trip.
C32_ReleaseOwnReservation ==
    [][\A a \in Amb :
          (amb[a].status = "on_trip" /\ amb'[a].status = "available")
             => \E p \in Procs :
                   /\ pr[p].pc = "rl_write"
                   /\ pr[p].target = a
                   /\ amb[a].asg = pr[p].sid]_vars

\* C35: the removal of the failed connections after a broadcast pass
\* never raises: no push and no simulation step ends with the error of
\* removing a connection that is not in the listeners.
C35_RemovalNeverFails ==
    /\ \A k \in PushIds : pushes[k].err # "ValueError"
    /\ \A j \in SimIds : sims[j].err # "ValueError"

\* C31: _fetch_route never raises to simulate_tracking; for a timeout, an
\* error status, a code that is not Ok or an empty list of routes it
\* returns the two points start, end; for any other answer it returns the
\* points of the service in their order, each (lon, lat) turned into
\* (lat, lon).
C31_FetchRoute ==
    [][\A j \in SimIds :
          (sims[j].pc \in {"routing", "routing2"} /\ sims'[j] # sims[j])
             => LET first == sims[j].pc = "routing"
                    start == IF first THEN sims[j].origin ELSE Pickup
                    end == IF first THEN Pickup ELSE Drop
                    leg == IF first THEN sims'[j].seg1 ELSE sims'[j].seg2
                    resp == sims'[j].resp
                IN  /\ sims'[j].pc # "failed"
                    /\ sims'[j].err = ""
                    /\ resp.kind \in Failures => leg = <<start, end>>
                    /\ resp.kind \notin Failures
                          => /\ Len(leg) = Len(resp.coords)
                             /\ \A n \in 1..Len(leg) :
                                   /\ leg[n][1] = resp.coords[n][2]
                                   /\ leg[n][2] = resp.coords[n][1]]_vars

C31_Witness ==
    \E j \in SimIds :
        /\ sims[j].pc = "started"
        /\ sims[j].origin # DispatchDefault
        /\ sims[j].seg1 = <<sims[j].origin, Midway, Pickup>>
        /\ sims[j].resp.kind = "timeout"
        /\ sims[j].seg2 = <<Pickup, Drop>>

\* C38: the route of a simulation is the first leg followed by the second
\* leg without its first point: its length is len(leg1) + len(leg2) - 1,
\* and the pickup point the two legs share does not come twice in a row.
C38_RouteConcatenation ==
    \A j \in SimIds :
        sims[j].pc \notin {"idle", "rejected", "routing", "routing2"}
           => LET leg1 == sims[j].seg1
                  leg2 == sims[j].seg2
                  route == sims[j].route
              IN  /\ Len(route) = Len(leg1) + Len(leg2) - 1
                  /\ \A n \in 1..Len(leg1) : route[n] = leg1[n]
                  /\ \A n \in 2..Len(leg2) :
                        route[Len(leg1) + n - 1] = leg2[n]
                  /\ leg1[Len(leg1)] = leg2[1]
                        => \A n \in 1..(Len(route) - 1) :
                              ~(route[n] = leg2[1] /\ route[n + 1] = leg2[1])

C38_Witness ==
    \E j \in SimIds :
        /\ sims[j].pc = "started"
        /\ Len(sims[j].seg1) = 3
        /\ Len(sims[j].seg2) = 3
        /\ sims[j].route = <<sims[j].origin, Midway, Pickup, Midway, Drop>>

\* the order of the status labels of a journey
Rank(label) ==
    CASE label = "dispatched" -> 0
      [] label = "en_route" -> 1
      [] label = "nearby" -> 2
      [] label = "arrived" -> 3

\* C37: whatever simulate calls are made for a trip, the snapshots its
\* viewers are sent stay monotonic: from one message to the next the ETA
\* never increases (the progress never decreases) and the status label
\* never moves backwards.
C37_MonotonicBroadcasts ==
    \A v \in Viewers :
        \A n \in 1..(Len(viewers[v].got) - 1) :
            /\ viewers[v].got[n + 1].eta <= viewers[v].got[n].eta
            /\ Rank(viewers[v].got[n + 1].status)
                  >= Rank(viewers[v].got[n].status)

\* the label of step i by the thresholds on the progress i / updates:
\* below 10%, below 85%, below 95%, and from 95% on
LabelAt(i) ==
    IF 100 * i < 10 * updates THEN "dispatched"
    ELSE IF 100 * i < 85 * updates THEN "en_route"
    ELSE IF 100 * i < 95 * updates THEN "nearby"
    ELSE "arrived"

\* C36: a simulation run performs the steps 0 to 60 in their order and
\* then ends, and it ends in no other way; the step with index i writes
\* and broadcasts the label of progress i/60, which never moves
\* backwards within the run; the last step broadcasts arrived, ETA 0 and
\* the position of the last waypoint of the route.
C36_SimulationRun ==
    [][\A j \in SimIds :
          /\ sims'[j].pc # "failed"
          /\ sims'[j].pc = "finished" => sims[j].i = updates
          /\ (sims[j].pc \in {"started", "sleeping"} /\ sims'[j] # sims[j])
                => IF sims[j].pc = "sleeping" /\ sims[j].i = updates
                   THEN /\ sims'[j].pc = "finished"
                        /\ sessions' = sessions
                        /\ viewers' = viewers
                   ELSE LET i == sims'[j].i
                            snap == sims'[j].snap
                            route == sims[j].route
                        IN  /\ i = IF sims[j].pc = "started" THEN 0
                                   ELSE sims[j].i + 1
                            /\ i <= updates
                            /\ snap = SnapshotOf(sims[j].trip,
                                                 sessions'[sims[j].trip])
                            /\ snap.status = LabelAt(i)
                            /\ sims[j].pc = "sleeping"
                                  => Rank(snap.status)
                                        >= Rank(LabelAt(sims[j].i))
                            /\ i = updates
                                  => /\ snap.status = "arrived"
                                     /\ snap.eta = 0
                                     /\ snap.lat
                                           = updates * route[Len(route)][1]]_vars

====
